---- MODULE Spec2Model ----
(***************************************************************************)
(* Backup validation pipeline of smart-backup-assistant:                   *)
(*   BackupAnalyzer      (backup_analyzer.py)                              *)
(*   BreakingChangesDB   (breaking_changes.py)                             *)
(*   BackupManager       (backup_manager.py)                               *)
(*   ConfigManager       (config_manager.py)                               *)
(*                                                                         *)
(* Python values are represented as follows.                               *)
(*   str          a sequence of one-character strings, <<"2",".","5">>,    *)
(*                when the code looks inside it (version strings);         *)
(*                a TLA+ string when the code only compares it             *)
(*   None / null  PyNone                                                   *)
(*   dict         a record; a key the dict lacks is a field the record     *)
(*                lacks, and d.get(k, default) is Get(d, k, default)       *)
(*   list         a sequence                                               *)
(* Timestamps (datetime.utcnow) are left out of the reports.               *)
(***************************************************************************)
EXTENDS Integers, Sequences, FiniteSets, TLC

VARIABLES changes, db_file, clock, supervisor, report, args, result, threads, calls, config_file

vars == <<changes, db_file, clock, supervisor, report, args, result, threads, calls,
         config_file>>

(***************************************************************************)
(* Bounds of the model                                                     *)
(***************************************************************************)
YearSpan == 1
MaxMonth == 10
MaxPatch == 1
MaxRecords == 3
MaxUpdates == 2
MaxFetched == 2

(***************************************************************************)
(* Python built-ins used by the code                                       *)
(***************************************************************************)
PyNone == <<"None">>

Get(d, k, default) == IF k \in DOMAIN d THEN d[k] ELSE default

Digits == <<"0", "1", "2", "3", "4", "5", "6", "7", "8", "9">>

IsDigit(c) == \E i \in 1..10 : Digits[i] = c

DigitVal(c) == (CHOOSE i \in 1..10 : Digits[i] = c) - 1

RECURSIVE NatStr(_)
NatStr(n) ==
    IF n < 10 THEN <<Digits[n + 1]>>
    ELSE Append(NatStr(n \div 10), Digits[(n % 10) + 1])

\* "a" + "." + "b"
Dot(a, b) == a \o <<".">> \o b

RECURSIVE lstrip(_, _)
lstrip(s, c) ==
    IF s # <<>> /\ Head(s) = c THEN lstrip(Tail(s), c) ELSE s

RECURSIVE rstrip(_, _)
rstrip(s, c) ==
    IF s # <<>> /\ s[Len(s)] = c THEN rstrip(SubSeq(s, 1, Len(s) - 1), c) ELSE s

\* str.split(sep): the parts between the separators, always at least one
RECURSIVE split(_, _)
split(s, sep) ==
    IF \A i \in 1..Len(s) : s[i] # sep THEN <<s>>
    ELSE LET i == CHOOSE k \in 1..Len(s) :
                      s[k] = sep /\ \A j \in 1..(k - 1) : s[j] # sep
         IN  <<SubSeq(s, 1, i - 1)>> \o split(SubSeq(s, i + 1, Len(s)), sep)

\* int(s) of a str: surrounding blanks are ignored, one optional sign, then
\* digits, single underscores allowed between digits
IntBody(s) ==
    LET t == rstrip(lstrip(s, " "), " ")
    IN  IF t # <<>> /\ (Head(t) = "-" \/ Head(t) = "+") THEN Tail(t) ELSE t

IntNegative(s) ==
    LET t == lstrip(s, " ") IN t # <<>> /\ Head(t) = "-"

int_ok(s) ==
    LET b == IntBody(s)
    IN  /\ b # <<>>
        /\ IsDigit(b[1])
        /\ IsDigit(b[Len(b)])
        /\ \A i \in 1..Len(b) : IsDigit(b[i]) \/ b[i] = "_"
        /\ \A i \in 1..(Len(b) - 1) : ~(b[i] = "_" /\ b[i + 1] = "_")

RECURSIVE DigitsVal(_)
DigitsVal(b) ==
    IF b = <<>> THEN 0
    ELSE IF b[Len(b)] = "_" THEN DigitsVal(SubSeq(b, 1, Len(b) - 1))
    ELSE DigitsVal(SubSeq(b, 1, Len(b) - 1)) * 10 + DigitVal(b[Len(b)])

int(s) == IF IntNegative(s) THEN 0 - DigitsVal(IntBody(s)) ELSE DigitsVal(IntBody(s))

abs(n) == IF n < 0 THEN 0 - n ELSE n

\* x in l, for a list l
InList(x, l) == \E i \in 1..Len(l) : l[i] = x

(***************************************************************************)
(* BackupAnalyzer._parse_version and BreakingChangesDB._parse_version      *)
(* The result is kind "ok" (the dict), "none" (None is returned) or        *)
(* "raise" (an exception other than ValueError/IndexError leaves the       *)
(* method: a value that is not a str has no lstrip).                       *)
(***************************************************************************)
ParseNone == [kind |-> "none"]

ParseRaise == [kind |-> "raise", error |-> "AttributeError"]

parse_version(version) ==
    IF version = PyNone THEN ParseRaise
    ELSE LET parts == split(lstrip(version, "v"), ".")
         IN  IF Len(parts) < 2 THEN ParseNone
             ELSE IF /\ int_ok(parts[1])
                     /\ int_ok(parts[2])
                     /\ (Len(parts) > 2 => int_ok(parts[3]))
                  THEN [kind  |-> "ok",
                        year  |-> int(parts[1]),
                        month |-> int(parts[2]),
                        patch |-> IF Len(parts) > 2 THEN int(parts[3]) ELSE 0]
                  ELSE ParseNone

Analyzer_parse_version(version) == parse_version(version)

DB_parse_version(version) == parse_version(version)

(***************************************************************************)
(* BackupAnalyzer.compare_versions                                         *)
(***************************************************************************)
\* version_diff_of without the comparison of the patch components
version_diff_of_no_patch(backup_parts, current_parts) ==
    IF backup_parts.year < current_parts.year THEN "older"
    ELSE IF backup_parts.year > current_parts.year THEN "newer"
    ELSE IF backup_parts.month < current_parts.month THEN "older"
    ELSE IF backup_parts.month > current_parts.month THEN "newer"
    ELSE "same"

\* the if/elif chain over year, month and patch
version_diff_of(backup_parts, current_parts) ==
    IF backup_parts.year < current_parts.year THEN "older"
    ELSE IF backup_parts.year > current_parts.year THEN "newer"
    ELSE IF backup_parts.month < current_parts.month THEN "older"
    ELSE IF backup_parts.month > current_parts.month THEN "newer"
    ELSE IF backup_parts.patch < current_parts.patch THEN "older"
    ELSE IF backup_parts.patch > current_parts.patch THEN "newer"
    ELSE "same"

\* compared with a month_diff that keeps its sign
compared_signed_month(backup_version, current_version, backup_parts, current_parts) ==
    LET version_diff == version_diff_of(backup_parts, current_parts)
        year_diff    == abs(current_parts.year - backup_parts.year)
        month_diff   == current_parts.month - backup_parts.month
    IN  [compatible        |-> version_diff \in {"same", "older"},
         version_diff      |-> version_diff,
         backup_version    |-> backup_version,
         current_version   |-> current_version,
         year_diff         |-> year_diff,
         month_diff        |-> month_diff,
         total_months_diff |-> (year_diff * 12) + month_diff]

\* the dict returned when both versions parse
compared(backup_version, current_version, backup_parts, current_parts) ==
    LET version_diff == version_diff_of(backup_parts, current_parts)
        year_diff    == abs(current_parts.year - backup_parts.year)
        month_diff   == abs(current_parts.month - backup_parts.month)
    IN  [compatible        |-> version_diff \in {"same", "older"},
         version_diff      |-> version_diff,
         backup_version    |-> backup_version,
         current_version   |-> current_version,
         year_diff         |-> year_diff,
         month_diff        |-> month_diff,
         total_months_diff |-> (year_diff * 12) + month_diff]

\* comparison_error without the except branch: the exception leaves the method
comparison_error_uncaught(backup_version, current_version, error) ==
    [raised |-> error]

\* the dict of the except branch: an exception of _parse_version is caught
comparison_error(backup_version, current_version, error) ==
    [compatible      |-> FALSE,
     reason          |-> "Version comparison error: " \o error,
     backup_version  |-> backup_version,
     current_version |-> current_version]

compare_versions(backup_version, current_version) ==
    LET backup_parts  == Analyzer_parse_version(backup_version)
        current_parts == Analyzer_parse_version(current_version)
    IN  IF backup_parts.kind = "raise"
        THEN comparison_error(backup_version, current_version, backup_parts.error)
        ELSE IF current_parts.kind = "raise"
        THEN comparison_error(backup_version, current_version, current_parts.error)
        ELSE IF backup_parts.kind = "none" \/ current_parts.kind = "none"
        THEN [compatible      |-> FALSE,
              reason          |-> "Could not parse version numbers",
              backup_version  |-> backup_version,
              current_version |-> current_version]
        ELSE compared(backup_version, current_version, backup_parts, current_parts)

(***************************************************************************)
(* BackupAnalyzer.analyze_backup                                           *)
(* An archive is [opens, members]; a member is [name, file, content]:      *)
(* file says whether extractfile gives a file object, content is           *)
(* [json |-> "malformed"], [json |-> "dict", value |-> the manifest] or    *)
(* [json |-> "list", value |-> a list].  An addon that is not a dict is    *)
(* [py_str |-> its text]; a manifest size is [number |-> n] or             *)
(* [text |-> t].                                                           *)
(***************************************************************************)
ManifestName == <<"m", "a", "n", "i", "f", "e", "s", "t", ".", "j", "s", "o", "n">>

endswith(s, suffix) ==
    /\ Len(s) >= Len(suffix)
    /\ SubSeq(s, Len(s) - Len(suffix) + 1, Len(s)) = suffix

ExtractNone == [json |-> "none"]

\* the loop over tar.getmembers(): a matching member that gives no file object
\* is passed over, a matching file decides the result
RECURSIVE scan_members(_)
scan_members(members) ==
    IF members = <<>> THEN ExtractNone
    ELSE LET member == Head(members)
         IN  IF endswith(member.name, ManifestName) \/ member.name = ManifestName
             THEN IF member.file
                  THEN IF member.content.json = "malformed"
                       THEN ExtractNone
                       ELSE member.content
                  ELSE scan_members(Tail(members))
             ELSE scan_members(Tail(members))

_extract_manifest(backup_data) ==
    IF ~backup_data.opens THEN ExtractNone
    ELSE scan_members(backup_data.members)

\* truth value of what _extract_manifest returned
truthy(manifest) ==
    CASE manifest.json = "none" -> FALSE
      [] manifest.json = "dict" -> DOMAIN manifest.value # {}
      [] manifest.json = "list" -> manifest.value # <<>>

is_dict(addon) == "py_str" \notin DOMAIN addon

addon_integration_map ==
    [mosquitto |-> "mqtt", mariadb |-> "mysql", influxdb |-> "influxdb",
     grafana |-> "grafana", zigbee2mqtt |-> "mqtt", esphome |-> "esphome"]
    @@ ("node-red" :> "node_red")

\* the integrations inferred from the addon slugs, in the order of the addons
RECURSIVE inferred_integrations(_)
inferred_integrations(addons) ==
    IF addons = <<>> THEN <<>>
    ELSE LET addon == Head(addons)
             addon_slug == IF is_dict(addon) THEN Get(addon, "slug", "")
                           ELSE addon.py_str
         IN  (IF addon_slug \in DOMAIN addon_integration_map
              THEN <<addon_integration_map[addon_slug]>> ELSE <<>>)
             \o inferred_integrations(Tail(addons))

\* the names in their order as Python strings
NameOrder ==
    <<"automation", "default_config", "esphome", "grafana", "homeassistant",
      "homekit", "influxdb", "mqtt", "mysql", "node_red", "sensor", "shelly",
      "system_health", "template", "zha">>

\* list(names): neither set nor sorted
listed(names) == names

\* sorted(list(set(names)))
sorted_set(names) == SelectSeq(NameOrder, LAMBDA n : InList(n, names))

_extract_integrations(manifest) ==
    LET ha_data  == Get(manifest, "homeassistant_data", <<>>)
        explicit == IF "integrations" \in DOMAIN ha_data THEN ha_data.integrations
                    ELSE IF "components" \in DOMAIN ha_data THEN ha_data.components
                    ELSE <<>>
        found    == IF explicit = <<>> /\ "addons" \in DOMAIN manifest
                    THEN inferred_integrations(manifest.addons)
                    ELSE explicit
        core_integrations == <<"homeassistant", "default_config", "system_health">>
    IN  sorted_set(found \o core_integrations)

\* supervisor_version, backup_date, backup_type and folders are copied from the
\* manifest in the same way as backup_name and are left out
_parse_manifest(manifest) ==
    LET addons == Get(manifest, "addons", <<>>)
        addon_list == [i \in 1..Len(addons) |->
                          IF is_dict(addons[i])
                          THEN [name    |-> Get(addons[i], "name", "unknown"),
                                slug    |-> Get(addons[i], "slug", "unknown"),
                                version |-> Get(addons[i], "version", "unknown")]
                          ELSE [slug |-> addons[i].py_str]]
        integrations == _extract_integrations(manifest)
    IN  [homeassistant_version |->
             Get(manifest, "homeassistant", <<"u", "n", "k", "n", "o", "w", "n">>),
         backup_name       |-> Get(manifest, "name", "Unknown"),
         backup_size       |-> Get(manifest, "size", [number |-> 0]),
         addons            |-> addon_list,
         integrations      |-> integrations,
         addon_count       |-> Len(addon_list),
         integration_count |-> Len(integrations)]

analyze_backup(backup_data) ==
    LET manifest == _extract_manifest(backup_data)
    IN  IF ~truthy(manifest)
        THEN [success |-> FALSE,
              error |-> "Could not extract manifest from backup file"]
        ELSE IF manifest.json # "dict"
        THEN [success |-> FALSE,
              error |-> "'list' object has no attribute 'get'"]
        ELSE [success |-> TRUE] @@ _parse_manifest(manifest.value)

(***************************************************************************)
(* BreakingChangesDB                                                       *)
(* A record keeps id, version, integration, title and severity; its        *)
(* description and url are carried along unchanged and are left out.       *)
(***************************************************************************)
V3(y, m, p) == Dot(Dot(NatStr(y), NatStr(m)), NatStr(p))

_get_curated_breaking_changes ==
    << [id |-> "mqtt_2024_10", version |-> V3(2024, 10, 0), integration |-> "mqtt",
        title |-> "MQTT Discovery Topic Changes", severity |-> "medium"],
       [id |-> "zha_2024_9", version |-> V3(2024, 9, 0), integration |-> "zha",
        title |-> "ZHA Device Naming Convention Changed", severity |-> "high"],
       [id |-> "esphome_2024_8", version |-> V3(2024, 8, 0), integration |-> "esphome",
        title |-> "ESPHome API Version Requirement", severity |-> "medium"],
       [id |-> "homekit_2024_7", version |-> V3(2024, 7, 0), integration |-> "homekit",
        title |-> "HomeKit Bridge Configuration Changes", severity |-> "high"],
       [id |-> "template_2024_6", version |-> V3(2024, 6, 0), integration |-> "template",
        title |-> "Template Sensor Syntax Update", severity |-> "low"],
       [id |-> "automation_2024_5", version |-> V3(2024, 5, 0), integration |-> "automation",
        title |-> "Automation Trigger ID Requirement", severity |-> "low"],
       [id |-> "shelly_2024_4", version |-> V3(2024, 4, 0), integration |-> "shelly",
        title |-> "Shelly Integration Rewrite", severity |-> "high"],
       [id |-> "sensor_2024_3", version |-> V3(2024, 3, 0), integration |-> "sensor",
        title |-> "Sensor Platform Deprecation", severity |-> "medium"] >>

\* the try body never raises: the curated list is returned
_fetch_breaking_changes == _get_curated_breaking_changes

NoFile == [exists |-> FALSE]

\* a missing file, and a file that cannot be read as JSON, give the empty document
_load_database(file) ==
    IF file.exists /\ "data" \in DOMAIN file
    THEN file.data
    ELSE [changes |-> <<>>, last_update |-> PyNone]

_is_version_in_range(check_version, from_version, to_version) ==
    LET check_val == check_version.year * 10000 + check_version.month * 100
                         + check_version.patch
        from_val  == from_version.year * 10000 + from_version.month * 100
                         + from_version.patch
        to_val    == to_version.year * 10000 + to_version.month * 100
                         + to_version.patch
    IN  from_val < check_val /\ check_val <= to_val

\* is_relevant without the integration filter
is_relevant_any_integration(change, from_parts, to_parts, integrations) ==
    LET change_parts == DB_parse_version(Get(change, "version", <<>>))
    IN  /\ change_parts.kind = "ok"
        /\ _is_version_in_range(change_parts, from_parts, to_parts)

\* the test of one stored record inside the loop
is_relevant(change, from_parts, to_parts, integrations) ==
    LET change_parts == DB_parse_version(Get(change, "version", <<>>))
        change_integration == Get(change, "integration", "")
    IN  /\ change_parts.kind = "ok"
        /\ _is_version_in_range(change_parts, from_parts, to_parts)
        /\ (InList(change_integration, integrations) \/ change_integration = "all")

\* An exception anywhere in the body (a bound or a stored version that is not
\* a str) is caught and the empty list is returned.
find_breaking_changes(db, from_version, to_version, integrations) ==
    LET from_parts == DB_parse_version(from_version)
        to_parts   == DB_parse_version(to_version)
        stored     == Get(db, "changes", <<>>)
        keep(change) == is_relevant(change, from_parts, to_parts, integrations)
    IN  IF from_parts.kind = "raise" \/ to_parts.kind = "raise" THEN <<>>
        ELSE IF from_parts.kind = "none" \/ to_parts.kind = "none" THEN <<>>
        ELSE IF \E i \in 1..Len(stored) :
                    DB_parse_version(Get(stored[i], "version", <<>>)).kind = "raise"
             THEN <<>>
        ELSE SelectSeq(stored, keep)

\* severity_weights.get(severity, 3)
severity_weight(severity) ==
    CASE severity = "low" -> 1
      [] severity = "medium" -> 3
      [] severity = "high" -> 5
      [] OTHER -> 3

RECURSIVE risk_score_of(_)
risk_score_of(breaking_changes) ==
    IF breaking_changes = <<>> THEN 0
    ELSE severity_weight(Get(Head(breaking_changes), "severity", "medium"))
             + risk_score_of(Tail(breaking_changes))

\* risk_level_of with a medium band that stops below 6
risk_level_of_strict(risk_score) ==
    IF risk_score <= 2
    THEN [level |-> "low",
          message |-> "Minor changes detected. Restoration should be safe."]
    ELSE IF risk_score < 6
    THEN [level |-> "medium",
          message |-> "Some breaking changes detected. Review before restoring."]
    ELSE [level |-> "high",
          message |-> "Significant breaking changes detected. Restoration may cause issues."]

risk_level_of(risk_score) ==
    IF risk_score <= 2
    THEN [level |-> "low",
          message |-> "Minor changes detected. Restoration should be safe."]
    ELSE IF risk_score <= 6
    THEN [level |-> "medium",
          message |-> "Some breaking changes detected. Review before restoring."]
    ELSE [level |-> "high",
          message |-> "Significant breaking changes detected. Restoration may cause issues."]

assess_risk(breaking_changes) ==
    IF breaking_changes = <<>>
    THEN [level |-> "low", score |-> 0, message |-> "No breaking changes detected"]
    ELSE LET risk_score == risk_score_of(breaking_changes)
             band == risk_level_of(risk_score)
         IN  [level        |-> band.level,
              score        |-> risk_score,
              message      |-> band.message,
              change_count |-> Len(breaking_changes)]

\* the loop over new_changes without the test for a known id
RECURSIVE merge_changes_always_appends(_, _)
merge_changes_always_appends(existing_changes, new_changes) ==
    IF new_changes = <<>> THEN existing_changes
    ELSE merge_changes_always_appends(Append(existing_changes, Head(new_changes)),
                                      Tail(new_changes))

\* the loop over new_changes with a known id overwritten by the fetched record
RECURSIVE merge_changes_overwrites(_, _)
merge_changes_overwrites(existing_changes, new_changes) ==
    IF new_changes = <<>> THEN existing_changes
    ELSE LET change == Head(new_changes)
             known  == \E i \in 1..Len(existing_changes) :
                           Get(existing_changes[i], "id", "None") = Get(change, "id", "None")
         IN  merge_changes_overwrites(
                 IF known
                 THEN [i \in 1..Len(existing_changes) |->
                          IF Get(existing_changes[i], "id", "None") = Get(change, "id", "None")
                          THEN change ELSE existing_changes[i]]
                 ELSE Append(existing_changes, change),
                 Tail(new_changes))

\* existing_changes after the loop over new_changes: a change is appended
\* unless a record with its id is already there (a record without id has the
\* id None, which equals the None of another record without id)
RECURSIVE merge_changes(_, _)
merge_changes(existing_changes, new_changes) ==
    IF new_changes = <<>> THEN existing_changes
    ELSE LET change == Head(new_changes)
             known  == \E i \in 1..Len(existing_changes) :
                           Get(existing_changes[i], "id", "None") = Get(change, "id", "None")
         IN  merge_changes(IF known THEN existing_changes
                           ELSE Append(existing_changes, change),
                           Tail(new_changes))

\* the body of update_database once _fetch_breaking_changes has returned
\* new_changes: the in-memory document and the return value at time now
update_with(db, new_changes, now) ==
    IF new_changes # <<>>
    THEN [changes |-> [changes |-> merge_changes(Get(db, "changes", <<>>), new_changes),
                       last_update |-> now],
          returns |-> TRUE]
    ELSE [changes |-> db, returns |-> FALSE]

update_database(db, now) == update_with(db, _fetch_breaking_changes, now)

\* the file after _save_database: written whole, or left as it was when the
\* write fails (the exception is logged and swallowed)
_save_database(file, db, write_ok) ==
    IF write_ok THEN [exists |-> TRUE, data |-> db] ELSE file

(***************************************************************************)
(* BackupManager.validate_backup                                           *)
(* The f-string messages are given without the interpolated versions.      *)
(***************************************************************************)
\* the unit _format_size ends in; the digits of the text are left out.  A size
\* that is not a number cannot be compared with 1024.0 and raises.
_format_size(size_bytes) ==
    IF "number" \notin DOMAIN size_bytes THEN [raise |-> "TypeError"]
    ELSE LET n == size_bytes.number
         IN  [unit |-> IF n < 1024 THEN "B"
                       ELSE IF n < 1024 * 1024 THEN "KB"
                       ELSE IF n < 1024 * 1024 * 1024 THEN "MB"
                       ELSE IF n < 1024 * 1024 * 1024 * 1024 THEN "GB"
                       ELSE IF n < 1024 * 1024 * 1024 * 1024 * 1024 THEN "TB"
                       ELSE "PB"]

\* error_report when the exception is not caught
error_report_uncaught(backup_id, error) == [raised |-> error]

error_report(backup_id, error) ==
    [backup_id  |-> backup_id,
     status     |-> "error",
     risk_level |-> "unknown",
     error      |-> error]

\* version_findings that reports a newer backup as a warning
version_findings_newer_warns(version_comparison) ==
    IF ~version_comparison.compatible
    THEN IF Get(version_comparison, "version_diff", "None") = "newer"
         THEN [issues |-> <<>>,
               warnings |-> << [type |-> "version", severity |-> "high",
                                message |-> "Backup is from a newer version than current. Restoration not recommended."] >>]
         ELSE [issues |-> <<>>, warnings |-> <<>>]
    ELSE [issues |-> <<>>, warnings |-> <<>>]

\* the version part of the issue and warning lists
version_findings(version_comparison) ==
    IF ~version_comparison.compatible
    THEN IF Get(version_comparison, "version_diff", "None") = "newer"
         THEN [issues |-> << [type |-> "version", severity |-> "high",
                              message |-> "Backup is from a newer version than current. Restoration not recommended."] >>,
               warnings |-> <<>>]
         ELSE IF Get(version_comparison, "total_months_diff", 0) > 6
         THEN [issues |-> <<>>,
               warnings |-> << [type |-> "version", severity |-> "medium",
                                message |-> "Backup is months old. Significant changes may have occurred."] >>]
         ELSE [issues |-> <<>>, warnings |-> <<>>]
    ELSE [issues |-> <<>>, warnings |-> <<>>]

\* the entry appended for one matched breaking change
finding(change) ==
    [type        |-> "breaking_change",
     severity    |-> Get(change, "severity", "medium"),
     integration |-> Get(change, "integration", "None"),
     message     |-> Get(change, "title", "None")]

is_high(change) == Get(change, "severity", "medium") = "high"

is_not_high(change) == ~is_high(change)

\* breaking_change_findings in which records of severity low leave no entry
breaking_change_findings_drops_low(breaking_changes) ==
    LET is_low(change) == Get(change, "severity", "medium") = "low"
        is_other(change) == ~is_high(change) /\ ~is_low(change)
        high  == SelectSeq(breaking_changes, is_high)
        other == SelectSeq(breaking_changes, is_other)
    IN  [issues   |-> [i \in 1..Len(high) |-> finding(high[i])],
         warnings |-> [i \in 1..Len(other) |-> finding(other[i])]]

breaking_change_findings(breaking_changes) ==
    LET high  == SelectSeq(breaking_changes, is_high)
        other == SelectSeq(breaking_changes, is_not_high)
    IN  [issues   |-> [i \in 1..Len(high) |-> finding(high[i])],
         warnings |-> [i \in 1..Len(other) |-> finding(other[i])]]

\* overall_status in which warnings alone leave the backup compatible
overall_status_ignores_warnings(issues, warnings, risk_assessment) ==
    IF issues # <<>>
    THEN [status |-> "incompatible", risk_level |-> "high"]
    ELSE IF risk_assessment.level = "high"
    THEN [status |-> "compatible_with_warnings", risk_level |-> "high"]
    ELSE IF risk_assessment.level = "medium"
    THEN [status |-> "compatible_with_warnings", risk_level |-> "medium"]
    ELSE [status |-> "compatible", risk_level |-> "low"]

\* "Determine overall status"
overall_status(issues, warnings, risk_assessment) ==
    IF issues # <<>>
    THEN [status |-> "incompatible", risk_level |-> "high"]
    ELSE IF risk_assessment.level = "high"
    THEN [status |-> "compatible_with_warnings", risk_level |-> "high"]
    ELSE IF warnings # <<>> \/ risk_assessment.level = "medium"
    THEN [status |-> "compatible_with_warnings", risk_level |-> "medium"]
    ELSE [status |-> "compatible", risk_level |-> "low"]

\* _generate_recommendation keyed by the risk level before the status
_generate_recommendation_by_risk(status, risk_level) ==
    IF risk_level = "high" THEN "Proceed with caution"
    ELSE IF status = "incompatible" THEN "Restoration not recommended"
    ELSE IF risk_level = "medium" THEN "Restoration should be safe"
    ELSE "Backup appears safe to restore"

_generate_recommendation(status, risk_level) ==
    IF status = "incompatible" THEN "Restoration not recommended"
    ELSE IF risk_level = "high" THEN "Proceed with caution"
    ELSE IF risk_level = "medium" THEN "Restoration should be safe"
    ELSE "Backup appears safe to restore"

\* first n elements, l[:n]
Take(l, n) == SubSeq(l, 1, IF Len(l) < n THEN Len(l) ELSE n)

\* the dict returned at the end of the try body; _format_size is called while
\* the dict is built, and its exception gives the error report
returned_report(backup_id, analysis, current_version, version_comparison, breaking_changes, risk_assessment, issues, warnings, overall, size) ==
    IF "raise" \in DOMAIN size
    THEN error_report(backup_id, size.raise)
    ELSE [backup_id  |-> backup_id,
          status     |-> overall.status,
          risk_level |-> overall.risk_level,
          backup_info |-> [name |-> analysis.backup_name, size |-> size.unit],
          version_info |->
              [backup_version    |-> analysis.homeassistant_version,
               current_version   |-> current_version,
               compatible        |-> version_comparison.compatible,
               version_diff      |-> Get(version_comparison, "version_diff", "None"),
               months_difference |-> Get(version_comparison, "total_months_diff", 0)],
          integrations |-> [count |-> analysis.integration_count,
                            list  |-> Take(analysis.integrations, 20)],
          addons |-> [count |-> analysis.addon_count,
                      list  |-> Take([i \in 1..Len(analysis.addons) |->
                                         Get(analysis.addons[i], "name", "None")], 10)],
          breaking_changes |-> [count        |-> Len(breaking_changes),
                                risk_score   |-> risk_assessment.score,
                                risk_message |-> risk_assessment.message,
                                changes      |-> breaking_changes],
          issues         |-> issues,
          warnings       |-> warnings,
          recommendation |-> _generate_recommendation(overall.status,
                                                      overall.risk_level)]

\* "Determine overall status", then the returned dict
report_with(backup_id, analysis, current_version, version_comparison, breaking_changes, risk_assessment, issues, warnings) ==
    returned_report(backup_id, analysis, current_version, version_comparison,
                    breaking_changes, risk_assessment, issues, warnings,
                    overall_status(issues, warnings, risk_assessment),
                    _format_size(analysis.backup_size))

\* steps 6 and 7: the risk assessment and the issue and warning lists, the
\* version entry first, then the entries of the matched changes in their order
report_from(backup_id, analysis, current_version, version_comparison, breaking_changes) ==
    report_with(backup_id, analysis, current_version, version_comparison,
                breaking_changes,
                assess_risk(breaking_changes),
                version_findings(version_comparison).issues
                    \o breaking_change_findings(breaking_changes).issues,
                version_findings(version_comparison).warnings
                    \o breaking_change_findings(breaking_changes).warnings)

\* steps 4 and 5: the version comparison and the matched breaking changes
validation_report(backup_id, analysis, current_version, db) ==
    report_from(backup_id, analysis, current_version,
                compare_versions(analysis.homeassistant_version, current_version),
                find_breaking_changes(db, analysis.homeassistant_version,
                                      current_version, analysis.integrations))

\* the analysis failure return, then step 3: sup.ha_info is what
\* get_homeassistant_info does, [raise |-> error] or [response |-> dict]
after_analysis(backup_id, sup, db, analysis) ==
    IF ~analysis.success
    THEN [backup_id  |-> backup_id,
          status     |-> "error",
          risk_level |-> "unknown",
          error      |-> Get(analysis, "error", "Failed to analyze backup")]
    ELSE IF "raise" \in DOMAIN sup.ha_info
    THEN error_report(backup_id, sup.ha_info.raise)
    ELSE validation_report(
             backup_id, analysis,
             Get(Get(sup.ha_info.response, "data", <<>>), "version",
                 <<"U", "n", "k", "n", "o", "w", "n">>),
             db)

\* step 2: the analysis of the downloaded bytes
after_download(backup_id, sup, db, download) ==
    IF "raise" \in DOMAIN download
    THEN error_report(backup_id, download.raise)
    ELSE after_analysis(backup_id, sup, db, analyze_backup(download.data))

\* step 1: sup.backups[backup_id] is what download_backup does,
\* [raise |-> error] or [data |-> archive]
validate_backup(backup_id, sup, db) ==
    after_download(backup_id, sup, db, sup.backups[backup_id])

(***************************************************************************)
(* BackupManager.restore_backup                                            *)
(***************************************************************************)
Request(endpoint, backup_id) == [endpoint |-> endpoint, backup_id |-> backup_id]

\* the Supervisor requests validate_backup makes: the download, and
\* core/info once the analysis has succeeded
validate_requests(backup_id, sup) ==
    IF "raise" \in DOMAIN sup.backups[backup_id]
    THEN <<Request("backups/download", backup_id)>>
    ELSE IF ~analyze_backup(sup.backups[backup_id].data).success
    THEN <<Request("backups/download", backup_id)>>
    ELSE <<Request("backups/download", backup_id), Request("core/info", "")>>

\* restore_backup that leaves an incompatible or unreadable backup alone
restore_backup_unless_incompatible(backup_id, sup, db, restored) ==
    LET validation == validate_backup(backup_id, sup, db)
    IN  IF validation.status \in {"incompatible", "error"}
        THEN [requests |-> validate_requests(backup_id, sup),
              returns |-> [backup_id  |-> backup_id,
                           message    |-> "Backup restore refused",
                           validation |-> validation]]
        ELSE [requests |-> validate_requests(backup_id, sup)
                               \o <<Request("backups/restore/full", backup_id)>>,
              returns |-> [backup_id  |-> backup_id,
                           message    |-> "Backup restore initiated",
                           validation |-> validation]]

\* restored is what SupervisorAPI.restore_backup does, [raise |-> error] or
\* [response |-> dict]; its exception is logged and raised again
restore_backup(backup_id, sup, db, restored) ==
    LET validation == validate_backup(backup_id, sup, db)
        requests   == validate_requests(backup_id, sup)
                          \o <<Request("backups/restore/full", backup_id)>>
    IN  IF "raise" \in DOMAIN restored
        THEN [requests |-> requests, raises |-> restored.raise]
        ELSE [requests |-> requests,
              returns |-> [backup_id  |-> backup_id,
                           message    |-> "Backup restore initiated",
                           validation |-> validation]]

(***************************************************************************)
(* Version strings the operations are tried on                             *)
(***************************************************************************)
Years == 2023..(2023 + YearSpan)

Months == 1..MaxMonth

Patches == (0..MaxPatch) \cup {100 + MaxPatch}

WellFormedVersions ==
    {Dot(NatStr(y), NatStr(m)) : y \in Years, m \in Months}
    \cup {Dot(Dot(NatStr(y), NatStr(m)), NatStr(p)) :
              y \in Years, m \in Months, p \in Patches}

OddVersions ==
    {<<"v">> \o Dot(NatStr(2024), NatStr(5)),
     <<"v", "v">> \o Dot(NatStr(2024), NatStr(5)),
     NatStr(2024),
     <<>>,
     <<"u", "n", "k", "n", "o", "w", "n">>,
     <<"U", "n", "k", "n", "o", "w", "n">>,
     Dot(NatStr(2024), <<"x">>),
     Dot(Dot(NatStr(2024), NatStr(5)), <<"b">>),
     Dot(Dot(Dot(NatStr(2024), NatStr(5)), NatStr(1)), <<"b">>),
     Dot(NatStr(2024), <<"-", "1">>),
     Dot(NatStr(2024), <<" ", "5">>),
     PyNone}

VersionInputs == WellFormedVersions \cup OddVersions

\* the versions tried as backup version and as bounds of a range
ScenarioVersions ==
    {Dot(NatStr(y), NatStr(m)) : y \in Years, m \in {1, 7, MaxMonth}}
    \cup {Dot(NatStr(2024), NatStr(3)),
          V3(2024, 5, 0),
          V3(2024, 2, 0),
          V3(2024, 1, MaxPatch),
          V3(2024, MaxMonth, 100 + MaxPatch)}
    \cup OddVersions

(***************************************************************************)
(* ConfigManager                                                           *)
(*                                                                         *)
(* A JSON value carries its type: [bool |-> b], [int |-> n], [str |-> s]   *)
(* with s a sequence of characters, [tenths |-> n] for the finite float    *)
(* n / 10, [float |-> "inf"] and [float |-> "nan"], [none |-> TRUE],       *)
(* [list |-> l] and [dict |-> d].                                          *)
(***************************************************************************)
JBool(b) == [bool |-> b]

JInt(n) == [int |-> n]

JStr(s) == [str |-> s]

Daily == <<"d", "a", "i", "l", "y">>

DEFAULT_CONFIG ==
    [auto_backup             |-> JBool(TRUE),
     backup_schedule         |-> JStr(Daily),
     backup_retention        |-> JInt(7),
     notifications_enabled   |-> JBool(TRUE),
     debug_mode              |-> JBool(FALSE),
     validate_before_restore |-> JBool(TRUE),
     compression_enabled     |-> JBool(TRUE)]

\* bool(value)
py_bool(value) ==
    CASE "bool" \in DOMAIN value -> value.bool
      [] "int" \in DOMAIN value -> value.int # 0
      [] "str" \in DOMAIN value -> value.str # <<>>
      [] "tenths" \in DOMAIN value -> value.tenths # 0
      [] "float" \in DOMAIN value -> TRUE
      [] "none" \in DOMAIN value -> FALSE
      [] "list" \in DOMAIN value -> value.list # <<>>
      [] "dict" \in DOMAIN value -> DOMAIN value.dict # {}

\* int(value): the integer, or the exception int() raises
py_int(value) ==
    CASE "bool" \in DOMAIN value -> JInt(IF value.bool THEN 1 ELSE 0)
      [] "int" \in DOMAIN value -> value
      [] "str" \in DOMAIN value ->
            IF int_ok(value.str) THEN JInt(int(value.str)) ELSE [raise |-> "ValueError"]
      [] "tenths" \in DOMAIN value ->
            JInt(IF value.tenths < 0 THEN -((-value.tenths) \div 10)
                ELSE value.tenths \div 10)
      [] "float" \in DOMAIN value ->
            IF value.float = "inf" THEN [raise |-> "OverflowError"]
            ELSE [raise |-> "ValueError"]
      [] OTHER -> [raise |-> "TypeError"]

dict_update(d, updates) ==
    [k \in DOMAIN d \cup DOMAIN updates |->
        IF k \in DOMAIN updates THEN updates[k] ELSE d[k]]

\* the file is written by this class only, so it always parses
get_config(file) == dict_update(DEFAULT_CONFIG, file)

valid_schedules ==
    {JStr(<<"h", "o", "u", "r", "l", "y">>), JStr(Daily),
     JStr(<<"w", "e", "e", "k", "l", "y">>), JStr(<<"m", "o", "n", "t", "h", "l", "y">>)}

\* the try around int(retention): ValueError and TypeError give 7, any other
\* exception leaves _validate_config
validated_retention(retention) ==
    IF "int" \in DOMAIN retention
    THEN JInt(IF retention.int > 365 THEN 365
             ELSE IF retention.int < 1 THEN 1
             ELSE retention.int)
    ELSE IF retention.raise \in {"ValueError", "TypeError"}
    THEN JInt(7)
    ELSE retention

\* the validated dict, or [raise |-> the exception]; config.get of a value
\* that is not a dict raises AttributeError
_validate_config(config) ==
    IF "dict" \notin DOMAIN config
    THEN [raise |-> "AttributeError"]
    ELSE LET schedule  == Get(config.dict, "backup_schedule", JStr(Daily))
             retention == validated_retention(
                              py_int(Get(config.dict, "backup_retention", JInt(7))))
         IN  IF "raise" \in DOMAIN retention
             THEN retention
             ELSE [dict |->
                   [auto_backup |-> JBool(py_bool(Get(config.dict, "auto_backup", JBool(TRUE)))),
                    backup_schedule |->
                        IF schedule \in valid_schedules THEN schedule ELSE JStr(Daily),
                    backup_retention |-> retention,
                    notifications_enabled |->
                        JBool(py_bool(Get(config.dict, "notifications_enabled", JBool(TRUE)))),
                    debug_mode |-> JBool(py_bool(Get(config.dict, "debug_mode", JBool(FALSE)))),
                    validate_before_restore |->
                        JBool(py_bool(Get(config.dict, "validate_before_restore", JBool(TRUE)))),
                    compression_enabled |->
                        JBool(py_bool(Get(config.dict, "compression_enabled", JBool(TRUE))))]]

\* each method gives the file it leaves and what the call did:
\* [returns |-> PyNone] or [raises |-> the exception]
_save_config(config) == [file |-> config, outcome |-> [returns |-> PyNone]]

save_config(file, config) ==
    IF "raise" \in DOMAIN _validate_config(config)
    THEN [file |-> file, outcome |-> [raises |-> _validate_config(config).raise]]
    ELSE _save_config(_validate_config(config).dict)

update_config(file, updates) ==
    save_config(file, [dict |-> dict_update(get_config(file), updates)])

set_value(file, key, value) == update_config(file, [k \in {key} |-> value])

reset_to_defaults(file) == _save_config(DEFAULT_CONFIG)

\* config_json is what json.loads does with the text: [json |-> "malformed"]
\* or [json |-> "value", value |-> the JSON value]
import_config(file, config_json) ==
    IF config_json.json = "malformed"
    THEN [file |-> file, outcome |-> [raises |-> "ValueError"]]
    ELSE save_config(file, config_json.value)

(***************************************************************************)
(* State                                                                   *)
(*   changes     BreakingChangesDB.changes, the in-memory document         *)
(*   db_file     the document at db_path, or NoFile                        *)
(*   clock       the number of datetime.now() readings taken               *)
(*   supervisor  what the Supervisor API answers                           *)
(*   report      the last result of validate_backup                        *)
(*   args/result the arguments and the result of a directly called method  *)
(*   threads     the calls in progress on the store, one frame per thread  *)
(*   config_file the configuration document at config_path                 *)
(*   calls       the Supervisor requests of the last restore_backup, or    *)
(*               the calls one validate_backup has made step by step, in   *)
(*               the order they were made                                  *)
(***************************************************************************)
EmptyDB == [changes |-> <<>>, last_update |-> PyNone]

NoSupervisor == [exists |-> FALSE]

NoReport == [pending |-> TRUE]

NoArgs == [none |-> TRUE]

NoResult == [pending |-> TRUE]

NoThreads == <<>>

Pending == "pending" \in DOMAIN result

(***************************************************************************)
(* SpecCompare: compare_versions called on every pair of version inputs    *)
(***************************************************************************)
InitCompare ==
    /\ changes = EmptyDB
    /\ db_file = NoFile
    /\ clock = 0
    /\ supervisor = NoSupervisor
    /\ report = NoReport
    /\ args \in [backup_version : VersionInputs, current_version : VersionInputs]
    /\ result = NoResult
    /\ threads = NoThreads
    /\ calls = <<>>
    /\ config_file = DEFAULT_CONFIG

CompareVersions ==
    /\ Pending
    /\ "backup_version" \in DOMAIN args
    /\ result' = compare_versions(args.backup_version, args.current_version)
    /\ UNCHANGED <<changes, db_file, clock, supervisor, report, args, threads, calls, config_file>>

NextCompare == CompareVersions

SpecCompare == InitCompare /\ [][NextCompare]_vars

(***************************************************************************)
(* Documents the store is loaded from                                      *)
(***************************************************************************)
CuratedFile ==
    [exists |-> TRUE,
     data |-> [changes |-> _get_curated_breaking_changes, last_update |-> NatStr(0)]]

\* records around the edges of the range test: an integration 'all', a patch
\* above 99, a two-segment version, a record without severity, a record of low
\* severity, a version that does not parse and a record without integration
ProbeRecords ==
    << [id |-> "all_2024_2_1", version |-> V3(2024, 2, 1), integration |-> "all",
        title |-> "core change", severity |-> "high"],
       [id |-> "mqtt_2024_1_big", version |-> V3(2024, 1, 100 + MaxPatch),
        integration |-> "mqtt", title |-> "mqtt change", severity |-> "low"],
       [id |-> "zha_2024_9", version |-> Dot(NatStr(2024), NatStr(9)),
        integration |-> "zha", title |-> "zha change", severity |-> "high"],
       [id |-> "mqtt_2023_6", version |-> V3(2023, 6, 0), integration |-> "mqtt",
        title |-> "mqtt change without severity"],
       [id |-> "core_2023_8", version |-> V3(2023, 8, 0),
        integration |-> "homeassistant", title |-> "core change", severity |-> "low"],
       [id |-> "all_unknown", version |-> <<"u", "n", "k", "n", "o", "w", "n">>,
        integration |-> "all", title |-> "no version", severity |-> "high"],
       [id |-> "anon_2024_3", version |-> V3(2024, 3, 0),
        title |-> "no integration", severity |-> "critical"] >>

ProbeFile ==
    [exists |-> TRUE, data |-> [changes |-> ProbeRecords, last_update |-> NatStr(0)]]

IntegrationLists ==
    {<<>>,
     <<"mqtt">>,
     <<"zha", "mqtt">>,
     <<"default_config", "homeassistant", "mqtt", "system_health">>}

(***************************************************************************)
(* SpecFind: find_breaking_changes called on a loaded store with every     *)
(* pair of bounds                                                          *)
(***************************************************************************)
InitFind ==
    /\ db_file \in {CuratedFile, ProbeFile}
    /\ changes = _load_database(db_file)
    /\ clock = 0
    /\ supervisor = NoSupervisor
    /\ report = NoReport
    /\ args \in [from_version : ScenarioVersions, to_version : ScenarioVersions,
                 integrations : IntegrationLists]
    /\ result = NoResult
    /\ threads = NoThreads
    /\ calls = <<>>
    /\ config_file = DEFAULT_CONFIG

FindBreakingChanges ==
    /\ Pending
    /\ "from_version" \in DOMAIN args
    /\ result' = [relevant_changes |->
                     find_breaking_changes(changes, args.from_version,
                                           args.to_version, args.integrations)]
    /\ UNCHANGED <<changes, db_file, clock, supervisor, report, args, threads, calls, config_file>>

NextFind == FindBreakingChanges

SpecFind == InitFind /\ [][NextFind]_vars

(***************************************************************************)
(* SpecRisk: assess_risk called on every list of up to MaxRecords records  *)
(***************************************************************************)
RiskRecords ==
    {[id |-> "r", severity |-> sev] : sev \in {"low", "medium", "high", "critical"}}
    \cup {[id |-> "r"]}

RiskLists == UNION {[1..n -> RiskRecords] : n \in 0..MaxRecords}

InitRisk ==
    /\ changes = EmptyDB
    /\ db_file = NoFile
    /\ clock = 0
    /\ supervisor = NoSupervisor
    /\ report = NoReport
    /\ args \in [breaking_changes : RiskLists]
    /\ result = NoResult
    /\ threads = NoThreads
    /\ calls = <<>>
    /\ config_file = DEFAULT_CONFIG

AssessRisk ==
    /\ Pending
    /\ "breaking_changes" \in DOMAIN args
    /\ result' = assess_risk(args.breaking_changes)
    /\ UNCHANGED <<changes, db_file, clock, supervisor, report, args, threads, calls, config_file>>

NextRisk == AssessRisk

SpecRisk == InitRisk /\ [][NextRisk]_vars

(***************************************************************************)
(* SpecUpdate: a store loaded from a document, then updated again and      *)
(* again with one fetched list, and queried in between                     *)
(***************************************************************************)
\* two records with the id 'a', one with the id 'b' and one without an id
StoreRecords ==
    {[id |-> "a", version |-> V3(2024, 2, 0), integration |-> "all",
      title |-> "first", severity |-> "low"],
     [id |-> "a", version |-> V3(2024, 3, 0), integration |-> "mqtt",
      title |-> "second", severity |-> "high"],
     [id |-> "b", version |-> V3(2024, 2, 1), integration |-> "mqtt",
      title |-> "first", severity |-> "medium"],
     [version |-> V3(2024, 4, 0), integration |-> "all", title |-> "anon"]}

RecordLists == UNION {[1..n -> StoreRecords] : n \in 0..MaxFetched}

\* what db_path may hold: nothing, a list shorter than the fetched lists, or
\* the two records with the id 'a'
DocumentLists ==
    UNION {[1..n -> StoreRecords] : n \in 0..(MaxFetched - 1)}
    \cup {<<a, b>> : a, b \in {r \in StoreRecords : Get(r, "id", "None") = "a"}}

Documents ==
    {NoFile}
    \cup {[exists |-> TRUE, data |-> [changes |-> l, last_update |-> NatStr(0)]] :
              l \in DocumentLists}

InitUpdate ==
    /\ db_file \in Documents
    /\ changes = _load_database(db_file)
    /\ clock = 0
    /\ supervisor = NoSupervisor
    /\ report = NoReport
    /\ args \in [new_changes : RecordLists,
                 from_version : {Dot(NatStr(2024), NatStr(1))},
                 to_version : {V3(2024, MaxMonth, 0)},
                 integrations : {<<"mqtt">>}]
    /\ result = NoResult
    /\ threads = NoThreads
    /\ calls = <<>>
    /\ config_file = DEFAULT_CONFIG

\* update_database with _fetch_breaking_changes returning args.new_changes
UpdateWith(write_ok) ==
    /\ clock < MaxUpdates
    /\ clock' = clock + 1
    /\ LET updated == update_with(changes, args.new_changes, NatStr(clock + 1))
       IN  /\ changes' = updated.changes
           /\ db_file' = IF updated.returns
                         THEN _save_database(db_file, updated.changes, write_ok)
                         ELSE db_file
           /\ result' = [returns |-> updated.returns]
    /\ UNCHANGED <<supervisor, report, args, threads, calls, config_file>>

\* find_breaking_changes, then assess_risk on what it found
QueryStore ==
    /\ LET relevant_changes ==
               find_breaking_changes(changes, args.from_version, args.to_version,
                                     args.integrations)
       IN  result' = [relevant_changes |-> relevant_changes,
                      risk |-> assess_risk(relevant_changes)]
    /\ UNCHANGED <<changes, db_file, clock, supervisor, report, args, threads, calls, config_file>>

NextUpdate ==
    \/ \E write_ok \in BOOLEAN : UpdateWith(write_ok)
    \/ QueryStore

SpecUpdate == InitUpdate /\ [][NextUpdate]_vars

(***************************************************************************)
(* SpecThreads: calls of update_database and one call of                   *)
(* find_breaking_changes running on one store in threads of the server.    *)
(* No statement of breaking_changes.py takes a lock, so the threads        *)
(* interleave between the statements below.  existing_changes is the list  *)
(* object held by self.changes, and so is the list the for loop of         *)
(* find_breaking_changes iterates: an append is seen by every thread.      *)
(***************************************************************************)
Updaters == {"update_1", "update_2"}

Finder == "find"

NotCalled == [pc |-> "not called"]

\* the calls that are made: an update next to a find, or two updates
CallSets == {{"update_1", Finder}, Updaters}

FinderArgs ==
    [from_version : {Dot(NatStr(2024), NatStr(1))},
     to_version : {V3(2024, MaxMonth, 1)},
     integrations : {<<"mqtt", "zha", "esphome", "homekit", "template",
                       "automation", "shelly", "sensor">>,
                     <<"zha", "shelly">>}]

InitThreads ==
    /\ db_file = NoFile
    /\ changes = _load_database(db_file)
    /\ clock = 0
    /\ supervisor = NoSupervisor
    /\ report = NoReport
    /\ args \in FinderArgs
    /\ result = NoResult
    /\ \E called \in CallSets :
           threads = [t \in Updaters \cup {Finder} |->
                         IF t \in called THEN [pc |-> "called"] ELSE NotCalled]
    /\ calls = <<>>
    /\ config_file = DEFAULT_CONFIG

\* where an updater goes once the record in hand is dealt with
after_change(frame) ==
    IF Len(frame.new_changes) > 1
    THEN [pc |-> "check", new_changes |-> Tail(frame.new_changes)]
    ELSE [pc |-> "assign"]

\* new_changes = self._fetch_breaking_changes(); if new_changes: ...
\* existing_changes = self.changes.get('changes', [])
Fetch(t) ==
    /\ threads[t].pc = "called"
    /\ LET new_changes == _fetch_breaking_changes
       IN  threads' = [threads EXCEPT ![t] =
                          IF new_changes # <<>>
                          THEN [pc |-> "check", new_changes |-> new_changes]
                          ELSE [pc |-> "done", returns |-> FALSE]]
    /\ UNCHANGED <<changes, db_file, clock, supervisor, report, args, result, calls, config_file>>

\* if not any(c.get('id') == change.get('id') for c in existing_changes)
CheckKnown(t) ==
    /\ threads[t].pc = "check"
    /\ LET change == Head(threads[t].new_changes)
           known  == \E i \in 1..Len(changes.changes) :
                         Get(changes.changes[i], "id", "None") = Get(change, "id", "None")
       IN  threads' = [threads EXCEPT ![t] =
                          IF known THEN after_change(threads[t])
                          ELSE [pc |-> "append", new_changes |-> threads[t].new_changes]]
    /\ UNCHANGED <<changes, db_file, clock, supervisor, report, args, result, calls, config_file>>

\* existing_changes.append(change)
AppendChange(t) ==
    /\ threads[t].pc = "append"
    /\ changes' = [changes EXCEPT !.changes = Append(@, Head(threads[t].new_changes))]
    /\ threads' = [threads EXCEPT ![t] = after_change(threads[t])]
    /\ UNCHANGED <<db_file, clock, supervisor, report, args, result, calls, config_file>>

\* self.changes['changes'] = existing_changes (the same list object);
\* self.changes['last_update'] = datetime.now().isoformat()
AssignLastUpdate(t) ==
    /\ threads[t].pc = "assign"
    /\ clock' = clock + 1
    /\ changes' = [changes EXCEPT !.last_update = NatStr(clock + 1)]
    /\ threads' = [threads EXCEPT ![t] = [pc |-> "save"]]
    /\ UNCHANGED <<db_file, supervisor, report, args, result, calls, config_file>>

\* self._save_database(); return True
SaveDatabase(t, write_ok) ==
    /\ threads[t].pc = "save"
    /\ db_file' = _save_database(db_file, changes, write_ok)
    /\ threads' = [threads EXCEPT ![t] = [pc |-> "done", returns |-> TRUE]]
    /\ UNCHANGED <<changes, clock, supervisor, report, args, result, calls, config_file>>

\* find_breaking_changes up to the for statement: the bounds are parsed and
\* the iterator over the list of self.changes is made
find_started(from_version, to_version) ==
    IF DB_parse_version(from_version).kind # "ok" \/ DB_parse_version(to_version).kind # "ok"
    THEN [pc |-> "done", returns |-> <<>>]
    ELSE [pc |-> "loop", index |-> 1, relevant_changes |-> <<>>]

\* one round of the for loop: the iterator gives the record at its index if
\* the list has one by now, and ends the loop otherwise
find_stepped(frame, stored, from_version, to_version, integrations) ==
    IF frame.index > Len(stored)
    THEN [pc |-> "done", returns |-> frame.relevant_changes]
    ELSE IF DB_parse_version(Get(stored[frame.index], "version", <<>>)).kind = "raise"
    THEN [pc |-> "done", returns |-> <<>>]
    ELSE [pc |-> "loop", index |-> frame.index + 1,
          relevant_changes |->
              IF is_relevant(stored[frame.index], DB_parse_version(from_version),
                             DB_parse_version(to_version), integrations)
              THEN Append(frame.relevant_changes, stored[frame.index])
              ELSE frame.relevant_changes]

\* the result of the find call, once it has returned
find_returned(frame, before) ==
    IF frame.pc = "done" THEN [relevant_changes |-> frame.returns] ELSE before

StartFind ==
    /\ threads[Finder].pc = "called"
    /\ threads' = [threads EXCEPT ![Finder] =
                      find_started(args.from_version, args.to_version)]
    /\ result' = find_returned(threads'[Finder], result)
    /\ UNCHANGED <<changes, db_file, clock, supervisor, report, args, calls, config_file>>

NextChange ==
    /\ threads[Finder].pc = "loop"
    /\ threads' = [threads EXCEPT ![Finder] =
                      find_stepped(threads[Finder], changes.changes, args.from_version,
                                   args.to_version, args.integrations)]
    /\ result' = find_returned(threads'[Finder], result)
    /\ UNCHANGED <<changes, db_file, clock, supervisor, report, args, calls, config_file>>

NextThreads ==
    \/ \E t \in Updaters : Fetch(t)
    \/ \E t \in Updaters : CheckKnown(t)
    \/ \E t \in Updaters : AppendChange(t)
    \/ \E t \in Updaters : AssignLastUpdate(t)
    \/ \E t \in Updaters, write_ok \in BOOLEAN : SaveDatabase(t, write_ok)
    \/ StartFind
    \/ NextChange

SpecThreads == InitThreads /\ [][NextThreads]_vars

(***************************************************************************)
(* Spec: a BackupManager with its store loaded from db_path, in front of   *)
(* a supervisor that holds one backup and reports one current version.     *)
(* validate_backup and update_database are called in any order.            *)
(***************************************************************************)
RegularMember(content) == [name |-> ManifestName, file |-> TRUE, content |-> content]

OtherMember ==
    [name |-> <<"h", "a", ".", "t", "a", "r">>, file |-> TRUE,
     content |-> [json |-> "malformed"]]

ArchiveOf(manifest) ==
    [opens |-> TRUE,
     members |-> <<OtherMember, RegularMember([json |-> "dict", value |-> manifest])>>]

Zigbee2mqtt == [slug |-> "zigbee2mqtt"]

\* a manifest with a platform version and the single addon zigbee2mqtt
AddonManifest(version) == [homeassistant |-> version, addons |-> <<Zigbee2mqtt>>]

\* a manifest with an explicit integration list, a size and named addons
ExplicitManifest(version) ==
    [homeassistant |-> version,
     name |-> "nightly",
     size |-> [number |-> 4096],
     addons |-> << [slug |-> "esphome", name |-> "ESPHome", version |-> "1"] >>,
     homeassistant_data |-> [integrations |-> <<"zha", "mqtt", "zha">>]]

OddManifests ==
    {[addons |-> <<Zigbee2mqtt>>],
     [homeassistant |-> V3(2024, 5, 0),
      addons |-> <<Zigbee2mqtt>>,
      homeassistant_data |-> [components |-> <<"zha">>]],
     [homeassistant |-> V3(2024, 2, 0),
      homeassistant_data |-> [integrations |-> <<"sensor", "mqtt", "esphome">>]],
     [homeassistant |-> V3(2024, 5, 0), size |-> [text |-> "4 GB"]],
     [homeassistant |-> V3(2024, 5, 0),
      addons |-> << [py_str |-> "mosquitto"], [slug |-> "node-red"], [name |-> "x"] >>,
      homeassistant_data |-> [integrations |-> <<>>, components |-> <<"zha">>]]}

OddArchives ==
    {[opens |-> FALSE, members |-> <<>>],
     [opens |-> TRUE, members |-> <<OtherMember>>],
     [opens |-> TRUE, members |-> <<RegularMember([json |-> "malformed"])>>],
     [opens |-> TRUE, members |-> <<RegularMember([json |-> "dict", value |-> <<>>])>>],
     [opens |-> TRUE, members |-> <<RegularMember([json |-> "list", value |-> <<"x">>])>>],
     [opens |-> TRUE,
      members |-> << [name |-> <<"d", "/">> \o ManifestName, file |-> FALSE,
                      content |-> [json |-> "malformed"]],
                     RegularMember([json |-> "dict",
                                    value |-> AddonManifest(V3(2024, 5, 0))]) >>],
     [opens |-> TRUE,
      members |-> << RegularMember([json |-> "malformed"]),
                     RegularMember([json |-> "dict",
                                    value |-> AddonManifest(V3(2024, 5, 0))]) >>]}

Manifests ==
    {AddonManifest(v) : v \in ScenarioVersions}
    \cup {ExplicitManifest(v) :
              v \in {V3(2024, 5, 0), Dot(NatStr(2023), NatStr(1)),
                     V3(2024, MaxMonth, MaxPatch)}}
    \cup OddManifests

Archives == {ArchiveOf(m) : m \in Manifests} \cup OddArchives

Downloads == {[data |-> a] : a \in Archives} \cup {[raise |-> "Read timed out"]}

CurrentVersions ==
    {V3(2024, 10, 1),
     Dot(NatStr(2023), NatStr(MaxMonth)),
     V3(2024, 1, 100 + MaxPatch),
     Dot(NatStr(2024), <<"x">>),
     PyNone}

InfoAnswers ==
    {[response |-> [data |-> [version |-> v]]] : v \in CurrentVersions}
    \cup {[response |-> [data |-> <<>>]],
          [response |-> <<>>],
          [raise |-> "Connection refused"]}

BackupIds == {"nightly", "gone"}

InitSupervisor ==
    \E download \in Downloads, info \in InfoAnswers :
        supervisor = [backups |-> [id \in BackupIds |->
                                      IF id = "gone"
                                      THEN [raise |-> "404 Client Error: Not Found"]
                                      ELSE download],
                      ha_info |-> info]

Init ==
    /\ db_file \in {NoFile, CuratedFile, ProbeFile}
    /\ changes = _load_database(db_file)
    /\ clock = 0
    /\ InitSupervisor
    /\ report = NoReport
    /\ args = NoArgs
    /\ result = NoResult
    /\ threads = NoThreads
    /\ calls = <<>>
    /\ config_file = DEFAULT_CONFIG

\* POST /api/backups/<backup_id>/validate
ValidateBackup(backup_id) ==
    /\ report' = validate_backup(backup_id, supervisor, changes)
    /\ UNCHANGED <<changes, db_file, clock, supervisor, args, result, threads, calls, config_file>>

\* update_database, with the write of the file succeeding or failing
UpdateDatabase(write_ok) ==
    /\ clock < MaxUpdates
    /\ clock' = clock + 1
    /\ LET updated == update_database(changes, NatStr(clock + 1))
       IN  /\ changes' = updated.changes
           /\ db_file' = IF updated.returns
                         THEN _save_database(db_file, updated.changes, write_ok)
                         ELSE db_file
           /\ result' = [returns |-> updated.returns]
    /\ UNCHANGED <<supervisor, report, args, threads, calls, config_file>>

Next ==
    \/ \E backup_id \in BackupIds : ValidateBackup(backup_id)
    \/ \E write_ok \in BOOLEAN : UpdateDatabase(write_ok)

Spec == Init /\ [][Next]_vars

(***************************************************************************)
(* SpecSteps: one validate_backup call taken statement by statement, with  *)
(* every call it makes to a collaborator logged in calls                   *)
(***************************************************************************)
\* where the call continues after download_backup returned or raised
after_download_pc(download) ==
    IF "raise" \in DOMAIN download THEN "done" ELSE "analyze"

\* after_analysis_pc without the early return
after_analysis_pc_goes_on(analysis) == "info"

\* where the call continues after `if not analysis.get('success')`
after_analysis_pc(analysis) ==
    IF ~analysis.success THEN "done" ELSE "info"

\* where the call continues after get_homeassistant_info returned or raised
after_info_pc(info) ==
    IF "raise" \in DOMAIN info THEN "done" ELSE "compare"

Validating(pc) == "validate" \in DOMAIN threads /\ threads.validate.pc = pc

StartValidate(backup_id) ==
    /\ threads = NoThreads
    /\ threads' = [validate |-> [pc |-> "download", backup_id |-> backup_id]]
    /\ UNCHANGED <<changes, db_file, clock, supervisor, report, args, result, calls, config_file>>

\* Step 1
DownloadBackup ==
    /\ Validating("download")
    /\ LET frame    == threads.validate
           download == supervisor.backups[frame.backup_id]
       IN  /\ calls' = Append(calls, "download_backup")
           /\ threads' = [validate |->
                  [pc          |-> after_download_pc(download),
                   backup_id   |-> frame.backup_id,
                   backup_data |-> download]]
           /\ report' = IF "raise" \in DOMAIN download
                        THEN error_report(frame.backup_id, download.raise)
                        ELSE report
    /\ UNCHANGED <<changes, db_file, clock, supervisor, args, result, config_file>>

\* Step 2
AnalyzeBackup_step ==
    /\ Validating("analyze")
    /\ LET frame    == threads.validate
           analysis == analyze_backup(frame.backup_data.data)
       IN  /\ calls' = Append(calls, "analyze_backup")
           /\ threads' = [validate |->
                  [pc        |-> after_analysis_pc(analysis),
                   backup_id |-> frame.backup_id,
                   analysis  |-> analysis]]
           /\ report' = IF ~analysis.success
                        THEN [backup_id  |-> frame.backup_id,
                              status     |-> "error",
                              risk_level |-> "unknown",
                              error      |-> Get(analysis, "error", "Failed to analyze backup")]
                        ELSE report
    /\ UNCHANGED <<changes, db_file, clock, supervisor, args, result, config_file>>

\* Step 3
GetHomeassistantInfo ==
    /\ Validating("info")
    /\ LET frame == threads.validate
           info  == supervisor.ha_info
       IN  /\ calls' = Append(calls, "get_homeassistant_info")
           /\ threads' = [validate |->
                  [pc              |-> after_info_pc(info),
                   backup_id       |-> frame.backup_id,
                   analysis        |-> frame.analysis,
                   current_version |->
                       IF "raise" \in DOMAIN info THEN PyNone
                       ELSE Get(Get(info.response, "data", <<>>), "version",
                                <<"U", "n", "k", "n", "o", "w", "n">>)]]
           /\ report' = IF "raise" \in DOMAIN info
                        THEN error_report(frame.backup_id, info.raise)
                        ELSE report
    /\ UNCHANGED <<changes, db_file, clock, supervisor, args, result, config_file>>

\* Step 4
CompareVersions_step ==
    /\ Validating("compare")
    /\ LET frame == threads.validate
       IN  /\ calls' = Append(calls, "compare_versions")
           /\ threads' = [validate |->
                  [pc                 |-> "find",
                   backup_id          |-> frame.backup_id,
                   analysis           |-> frame.analysis,
                   current_version    |-> frame.current_version,
                   version_comparison |->
                       compare_versions(frame.analysis.homeassistant_version,
                                        frame.current_version)]]
    /\ UNCHANGED <<changes, db_file, clock, supervisor, report, args, result, config_file>>

\* Step 5
FindBreakingChanges_step ==
    /\ Validating("find")
    /\ LET frame == threads.validate
       IN  /\ calls' = Append(calls, "find_breaking_changes")
           /\ threads' = [validate |->
                  [pc                 |-> "report",
                   backup_id          |-> frame.backup_id,
                   analysis           |-> frame.analysis,
                   current_version    |-> frame.current_version,
                   version_comparison |-> frame.version_comparison,
                   breaking_changes   |->
                       find_breaking_changes(changes,
                                             frame.analysis.homeassistant_version,
                                             frame.current_version,
                                             frame.analysis.integrations)]]
    /\ UNCHANGED <<changes, db_file, clock, supervisor, report, args, result, config_file>>

\* Steps 6 and 7 and the return
ReturnReport ==
    /\ Validating("report")
    /\ LET frame == threads.validate
       IN  /\ report' = report_from(frame.backup_id, frame.analysis,
                                    frame.current_version,
                                    frame.version_comparison,
                                    frame.breaking_changes)
           /\ threads' = [validate |-> [pc |-> "done", backup_id |-> frame.backup_id]]
    /\ UNCHANGED <<changes, db_file, clock, supervisor, args, result, calls, config_file>>

NextSteps ==
    \/ \E backup_id \in BackupIds : StartValidate(backup_id)
    \/ DownloadBackup
    \/ AnalyzeBackup_step
    \/ GetHomeassistantInfo
    \/ CompareVersions_step
    \/ FindBreakingChanges_step
    \/ ReturnReport

SpecSteps == Init /\ [][NextSteps]_vars

(***************************************************************************)
(* SpecConfig: the methods of ConfigManager called in any order on a       *)
(* manager constructed without a file                                      *)
(***************************************************************************)
ConfigKeys == {"backup_retention", "backup_schedule", "debug_mode", "extra"}

ConfigValues ==
    {JInt(-5), JInt(0), JInt(30), JInt(366),
     JStr(<<"1", "2">>), JStr(<<"a", "b", "c">>), JStr(<<>>),
     JStr(<<"w", "e", "e", "k", "l", "y">>), JStr(<<"y", "e", "a", "r", "l", "y">>),
     JBool(TRUE), JBool(FALSE),
     [tenths |-> 27], [float |-> "inf"], [float |-> "nan"],
     [none |-> TRUE], [list |-> <<JStr(Daily)>>], [dict |-> <<>>]}

\* dicts of JSON values over the keys: one key, or retention and schedule
ConfigDicts ==
    {<<>>}
    \cup {[k \in {key} |-> value] : key \in ConfigKeys, value \in ConfigValues}
    \cup {[backup_retention |-> r, backup_schedule |-> s] :
              r \in {JInt(366), JStr(<<"a", "b", "c">>)},
              s \in {JStr(<<"w", "e", "e", "k", "l", "y">>), JInt(0)}}

\* what json.loads gives for the texts that are imported
ConfigTexts ==
    {[json |-> "malformed"]}
    \cup {[json |-> "value", value |-> [dict |-> d]] : d \in ConfigDicts}
    \cup {[json |-> "value", value |-> v] : v \in {[list |-> <<>>], [none |-> TRUE]}}

InitConfig ==
    /\ changes = EmptyDB
    /\ db_file = NoFile
    /\ clock = 0
    /\ supervisor = NoSupervisor
    /\ report = NoReport
    /\ args = NoArgs
    /\ result = NoResult
    /\ threads = NoThreads
    /\ calls = <<>>
    /\ config_file = DEFAULT_CONFIG

SaveConfig(config) ==
    /\ args' = [method |-> "save_config", input |-> config]
    /\ config_file' = save_config(config_file, [dict |-> config]).file
    /\ result' = save_config(config_file, [dict |-> config]).outcome
    /\ UNCHANGED <<changes, db_file, clock, supervisor, report, threads, calls>>

UpdateConfig(updates) ==
    /\ args' = [method |-> "update_config", input |-> updates]
    /\ config_file' = update_config(config_file, updates).file
    /\ result' = update_config(config_file, updates).outcome
    /\ UNCHANGED <<changes, db_file, clock, supervisor, report, threads, calls>>

SetValue(key, value) ==
    /\ args' = [method |-> "set_value", input |-> [k \in {key} |-> value]]
    /\ config_file' = set_value(config_file, key, value).file
    /\ result' = set_value(config_file, key, value).outcome
    /\ UNCHANGED <<changes, db_file, clock, supervisor, report, threads, calls>>

ImportConfig(config_json) ==
    /\ args' = [method |-> "import_config", input |-> config_json]
    /\ config_file' = import_config(config_file, config_json).file
    /\ result' = import_config(config_file, config_json).outcome
    /\ UNCHANGED <<changes, db_file, clock, supervisor, report, threads, calls>>

ResetToDefaults ==
    /\ args' = [method |-> "reset_to_defaults", input |-> <<>>]
    /\ config_file' = reset_to_defaults(config_file).file
    /\ result' = reset_to_defaults(config_file).outcome
    /\ UNCHANGED <<changes, db_file, clock, supervisor, report, threads, calls>>

NextConfig ==
    \/ \E config \in ConfigDicts : SaveConfig(config)
    \/ \E updates \in ConfigDicts : UpdateConfig(updates)
    \/ \E key \in ConfigKeys, value \in ConfigValues : SetValue(key, value)
    \/ \E config_json \in ConfigTexts : ImportConfig(config_json)
    \/ ResetToDefaults

SpecConfig == InitConfig /\ [][NextConfig]_vars

(***************************************************************************)
(* SpecRestore: the BackupManager of Spec, with restore_backup and         *)
(* validate_backup called in any order                                     *)
(***************************************************************************)
RestoreAnswers == {[response |-> <<>>], [raise |-> "500 Server Error"]}

\* backups that validate as compatible, compatible_with_warnings and
\* incompatible against the curated records, the archives that fail the
\* analysis, and a download that fails
RestoreDownloads ==
    {[data |-> a] :
        a \in {ArchiveOf(AddonManifest(Dot(NatStr(2024), NatStr(MaxMonth)))),
               ArchiveOf(AddonManifest(V3(2024, 5, 0))),
               ArchiveOf(ExplicitManifest(V3(2024, 5, 0)))} \cup OddArchives}
    \cup {[raise |-> "Read timed out"]}

InitRestore ==
    /\ db_file \in {CuratedFile, ProbeFile}
    /\ changes = _load_database(db_file)
    /\ clock = 0
    /\ \E download \in RestoreDownloads, info \in InfoAnswers :
           supervisor = [backups |-> [id \in BackupIds |->
                                         IF id = "gone"
                                         THEN [raise |-> "404 Client Error: Not Found"]
                                         ELSE download],
                         ha_info |-> info]
    /\ report = NoReport
    /\ args = NoArgs
    /\ result = NoResult
    /\ threads = NoThreads
    /\ calls = <<>>
    /\ config_file = DEFAULT_CONFIG

\* POST /api/backups/<backup_id>/restore
RestoreBackup(backup_id, restored) ==
    /\ LET outcome == restore_backup(backup_id, supervisor, changes, restored)
       IN  /\ calls' = outcome.requests
           /\ result' = IF "raises" \in DOMAIN outcome
                        THEN [restore_backup |-> backup_id, raises |-> outcome.raises]
                        ELSE [restore_backup |-> backup_id, returns |-> outcome.returns]
    /\ UNCHANGED <<changes, db_file, clock, supervisor, report, args, threads, config_file>>

NextRestore ==
    \/ \E backup_id \in BackupIds, restored \in RestoreAnswers :
           RestoreBackup(backup_id, restored)
    \/ \E backup_id \in BackupIds : ValidateBackup(backup_id)

SpecRestore == InitRestore /\ [][NextRestore]_vars

(***************************************************************************)
(* SpecAnalyze: analyze_backup called on two archives, one after the other *)
(***************************************************************************)
InitAnalyze ==
    /\ changes = EmptyDB
    /\ db_file = NoFile
    /\ clock = 0
    /\ supervisor = NoSupervisor
    /\ report = NoReport
    /\ args \in [first : Archives, second : Archives]
    /\ result = NoResult
    /\ threads = NoThreads
    /\ calls = <<>>
    /\ config_file = DEFAULT_CONFIG

AnalyzeBackup ==
    /\ Pending
    /\ "first" \in DOMAIN args
    /\ result' = [first  |-> analyze_backup(args.first),
                  second |-> analyze_backup(args.second)]
    /\ UNCHANGED <<changes, db_file, clock, supervisor, report, args, threads, calls, config_file>>

NextAnalyze == AnalyzeBackup

SpecAnalyze == InitAnalyze /\ [][NextAnalyze]_vars

(***************************************************************************)
(* SpecParse: the two _parse_version methods called on every version input *)
(***************************************************************************)
InitParse ==
    /\ changes = EmptyDB
    /\ db_file = NoFile
    /\ clock = 0
    /\ supervisor = NoSupervisor
    /\ report = NoReport
    /\ args \in [version : VersionInputs \ {PyNone}]
    /\ result = NoResult
    /\ threads = NoThreads
    /\ calls = <<>>
    /\ config_file = DEFAULT_CONFIG

ParseVersion ==
    /\ Pending
    /\ "version" \in DOMAIN args
    /\ result' = [analyzer |-> Analyzer_parse_version(args.version),
                  store    |-> DB_parse_version(args.version)]
    /\ UNCHANGED <<changes, db_file, clock, supervisor, report, args, threads, calls, config_file>>

NextParse == ParseVersion

SpecParse == InitParse /\ [][NextParse]_vars

(***************************************************************************)
(* What the version inputs denote, stated without the parser: the triple   *)
(* a well-formed string was written from, and the triple Python's int()    *)
(* gives for the odd strings that still parse.                             *)
(***************************************************************************)
Denotations ==
    {<<Dot(NatStr(y), NatStr(m)), <<y, m, 0>>>> : y \in Years, m \in Months}
    \cup {<<Dot(Dot(NatStr(y), NatStr(m)), NatStr(p)), <<y, m, p>>>> :
              y \in Years, m \in Months, p \in Patches}
    \cup {<< <<"v">> \o Dot(NatStr(2024), NatStr(5)), <<2024, 5, 0>> >>,
          << <<"v", "v">> \o Dot(NatStr(2024), NatStr(5)), <<2024, 5, 0>> >>,
          << Dot(Dot(Dot(NatStr(2024), NatStr(5)), NatStr(1)), <<"b">>), <<2024, 5, 1>> >>,
          << Dot(NatStr(2024), <<"-", "1">>), <<2024, 0 - 1, 0>> >>,
          << Dot(NatStr(2024), <<" ", "5">>), <<2024, 5, 0>> >>}

Denoted(s) == {d[2] : d \in {e \in Denotations : e[1] = s}}

Parseable(s) == Denoted(s) # {}

\* the inputs that do not parse: too few segments, a segment that is not a
\* number, a value that is not a str
UnparseableInputs ==
    {NatStr(2024),
     <<>>,
     <<"u", "n", "k", "n", "o", "w", "n">>,
     <<"U", "n", "k", "n", "o", "w", "n">>,
     Dot(NatStr(2024), <<"x">>),
     Dot(Dot(NatStr(2024), NatStr(5)), <<"b">>),
     PyNone}

\* the order of two triples by their first non-equal component
Lex(a, b) ==
    IF a[1] # b[1] THEN (IF a[1] < b[1] THEN "older" ELSE "newer")
    ELSE IF a[2] # b[2] THEN (IF a[2] < b[2] THEN "older" ELSE "newer")
    ELSE IF a[3] # b[3] THEN (IF a[3] < b[3] THEN "older" ELSE "newer")
    ELSE "same"

Compared == ~Pending /\ "backup_version" \in DOMAIN args

\* C7: for all parseable version pairs compare_versions returns version_diff
\* 'older', 'newer' or 'same' decided by the first non-equal component in the
\* order year, month, patch ('Y.M' and 'Y.M.0' are 'same'), and compatible is
\* true exactly when version_diff is 'same' or 'older'.
C7_VersionDiff ==
    Compared =>
        \A b \in Denoted(args.backup_version), c \in Denoted(args.current_version) :
            /\ "version_diff" \in DOMAIN result
            /\ result.version_diff = Lex(b, c)
            /\ result.compatible = (result.version_diff \in {"same", "older"})
            /\ (args.current_version = Dot(args.backup_version, <<"0">>)
                    => result.version_diff = "same")

C7_Witness ==
    /\ Compared
    /\ Parseable(args.backup_version)
    /\ args.current_version = Dot(args.backup_version, <<"0">>)
    /\ result.version_diff = "same"
    /\ result.compatible

\* C8: when either argument of compare_versions fails to parse (a value that
\* is not a str included) compare_versions does not raise and returns a
\* result with compatible = false, a reason, and no version_diff or
\* month-difference fields.
C8_UnparseableNoRaise ==
    (/\ Compared
     /\ \/ args.backup_version \in UnparseableInputs
        \/ args.current_version \in UnparseableInputs)
    => /\ "raised" \notin DOMAIN result
       /\ "compatible" \in DOMAIN result
       /\ result.compatible = FALSE
       /\ "reason" \in DOMAIN result
       /\ DOMAIN result \cap {"version_diff", "year_diff", "month_diff",
                              "total_months_diff"} = {}

C8_Witness ==
    /\ Compared
    /\ args.backup_version = PyNone
    /\ Parseable(args.current_version)
    /\ "reason" \in DOMAIN result
    /\ result.compatible = FALSE

\* C9: for all parseable version pairs compare_versions returns
\* year_diff = |current.year - backup.year|, month_diff = |current.month -
\* backup.month| and total_months_diff = year_diff*12 + month_diff (patch never
\* contributes); ('2024.9', '2024.10') gives total_months_diff = 1.
C9_MonthDistance ==
    Compared =>
        \A b \in Denoted(args.backup_version), c \in Denoted(args.current_version) :
            /\ "total_months_diff" \in DOMAIN result
            /\ result.year_diff = abs(c[1] - b[1])
            /\ result.month_diff = abs(c[2] - b[2])
            /\ result.total_months_diff = abs(c[1] - b[1]) * 12 + abs(c[2] - b[2])
            /\ (b[1] = 2024 /\ b[2] = 9 /\ c[1] = 2024 /\ c[2] = 10
                    => result.total_months_diff = 1)

C9_Witness ==
    /\ Compared
    /\ args.backup_version = Dot(NatStr(2024), NatStr(9))
    /\ args.current_version = Dot(NatStr(2024), NatStr(10))
    /\ result.total_months_diff = 1

\* the order of two triples: a strictly before b
Before(a, b) == Lex(a, b) = "older"

Found == ~Pending /\ "from_version" \in DOMAIN args

\* C6: for all parseable bounds from and to and every stored record with a
\* parseable version v, find_breaking_changes includes the record exactly when
\* from < v <= to in the lexicographic order on (year, month, patch) and the
\* record's integration is one of the supplied integrations or is 'all', also
\* for months or patches of 100 or more.
C6_RangeIsLexicographic ==
    Found =>
        \A f \in Denoted(args.from_version), t \in Denoted(args.to_version) :
            \A i \in 1..Len(changes.changes) :
                LET change == changes.changes[i]
                IN  \A v \in Denoted(Get(change, "version", <<>>)) :
                        InList(change, result.relevant_changes)
                        <=> /\ Before(f, v)
                            /\ ~Before(t, v)
                            /\ \/ InList(Get(change, "integration", ""), args.integrations)
                               \/ Get(change, "integration", "") = "all"

Assessed == ~Pending /\ "breaking_changes" \in DOMAIN args

CountSeverity(records, severities) ==
    Cardinality({i \in 1..Len(records) :
                     /\ "severity" \in DOMAIN records[i]
                     /\ records[i].severity \in severities})

\* C10: assess_risk returns score = the sum of the weights of the records'
\* severities (low 1, medium 3, high 5, any other or missing severity 3) and
\* level 'low' if score <= 2, 'medium' if 3 <= score <= 6, 'high' if score > 6;
\* zero records give score 0 and level 'low'.
C10_RiskScore ==
    Assessed =>
        LET records == args.breaking_changes
            low     == CountSeverity(records, {"low"})
            high    == CountSeverity(records, {"high"})
            other   == Len(records) - low - high
            score   == low + 5 * high + 3 * other
        IN  /\ result.score = score
            /\ result.level = (IF score <= 2 THEN "low"
                               ELSE IF score <= 6 THEN "medium" ELSE "high")
            /\ (records = <<>> => result.score = 0 /\ result.level = "low")

\* one high and one medium record: score 8, level high
C10_Witness ==
    /\ Assessed
    /\ args.breaking_changes = << [id |-> "r", severity |-> "high"],
                                  [id |-> "r", severity |-> "medium"] >>
    /\ result.score = 8
    /\ result.level = "high"

(***************************************************************************)
(* Claims about validate_backup                                            *)
(***************************************************************************)
Validated == "pending" \notin DOMAIN report

CompleteReport == Validated /\ "version_info" \in DOMAIN report

\* C1: validate_backup never raises to its caller: for every backup id and
\* every failure of a collaborator step (download_backup raising,
\* analyze_backup returning success = false, get_homeassistant_info raising,
\* a later step raising) it returns a report with status 'error' and
\* risk_level 'unknown' that carries the error text.
C1_NeverRaises ==
    Validated =>
        /\ "raised" \notin DOMAIN report
        /\ LET download == supervisor.backups[report.backup_id]
               failed(error) ==
                   /\ report.status = "error"
                   /\ report.risk_level = "unknown"
                   /\ "error" \in DOMAIN report
                   /\ report.error = error
           IN  IF "raise" \in DOMAIN download THEN failed(download.raise)
               ELSE LET analysis == analyze_backup(download.data)
                    IN  IF ~analysis.success THEN failed(analysis.error)
                        ELSE IF "raise" \in DOMAIN supervisor.ha_info
                        THEN failed(supervisor.ha_info.raise)
                        ELSE IF "number" \notin DOMAIN analysis.backup_size
                        THEN failed("TypeError")
                        ELSE report.status # "error"

\* the analysis succeeded and get_homeassistant_info raised
C1_Witness ==
    /\ Validated
    /\ report.backup_id = "nightly"
    /\ "data" \in DOMAIN supervisor.backups["nightly"]
    /\ analyze_backup(supervisor.backups["nightly"].data).success
    /\ "raise" \in DOMAIN supervisor.ha_info
    /\ report.status = "error"
    /\ report.risk_level = "unknown"
    /\ report.error = "Connection refused"

\* the level assess_risk attached the message for
LevelOfMessage(message) ==
    CASE message = "No breaking changes detected" -> "low"
      [] message = "Minor changes detected. Restoration should be safe." -> "low"
      [] message = "Some breaking changes detected. Review before restoring." -> "medium"
      [] OTHER -> "high"

\* C2: in every non-error report (status, risk_level) follows from the issue
\* list, the warning list and the assessed risk level: issues non-empty ->
\* (incompatible, high); else level high -> (compatible_with_warnings, high);
\* else warnings non-empty or level medium -> (compatible_with_warnings,
\* medium); else (compatible, low).
C2_StatusCascade ==
    (Validated /\ report.status # "error") =>
        LET level == LevelOfMessage(report.breaking_changes.risk_message)
            verdict == <<report.status, report.risk_level>>
        IN  IF report.issues # <<>> THEN verdict = <<"incompatible", "high">>
            ELSE IF level = "high" THEN verdict = <<"compatible_with_warnings", "high">>
            ELSE IF report.warnings # <<>> \/ level = "medium"
            THEN verdict = <<"compatible_with_warnings", "medium">>
            ELSE verdict = <<"compatible", "low">>

\* a warning with an assessed level of low
C2_Witness ==
    /\ Validated
    /\ report.status = "compatible_with_warnings"
    /\ report.risk_level = "medium"
    /\ report.issues = <<>>
    /\ report.warnings # <<>>
    /\ LevelOfMessage(report.breaking_changes.risk_message) = "low"

VersionEntries(findings) ==
    {i \in 1..Len(findings) : findings[i].type = "version"}

\* C3: for every pair of parseable versions where the backup version is newer
\* than the current version, the report of a validation that ran through has
\* exactly one issue of type 'version', of severity 'high', and so status
\* 'incompatible' and risk_level 'high', whatever the store contains.
C3_NewerIsIncompatible ==
    CompleteReport =>
        \A b \in Denoted(report.version_info.backup_version),
           c \in Denoted(report.version_info.current_version) :
            Lex(b, c) = "newer" =>
                /\ Cardinality(VersionEntries(report.issues)) = 1
                /\ \A i \in VersionEntries(report.issues) :
                       report.issues[i].severity = "high"
                /\ report.status = "incompatible"
                /\ report.risk_level = "high"

\* a newer backup for which the store also matches a record
C3_Witness ==
    /\ CompleteReport
    /\ \E b \in Denoted(report.version_info.backup_version),
          c \in Denoted(report.version_info.current_version) : Lex(b, c) = "newer"
    /\ report.breaking_changes.count > 0
    /\ Cardinality(VersionEntries(report.issues)) = 1
    /\ report.status = "incompatible"

\* C4: whenever the backup is not newer than the current system and
\* total_months_diff is greater than 6, the report contains exactly one
\* warning of type 'version' with severity 'medium'.
C4_OldBackupWarns ==
    (/\ CompleteReport
     /\ report.version_info.version_diff \in {"older", "same"}
     /\ report.version_info.months_difference > 6)
    => /\ Cardinality(VersionEntries(report.warnings)) = 1
       /\ \A i \in VersionEntries(report.warnings) :
              report.warnings[i].severity = "medium"

\* The case of C5: the store holds the curated records, the backup 'nightly'
\* has a manifest with homeassistant '2024.5.0' and the single addon
\* zigbee2mqtt, the current version is '2024.10.1', and validate_backup
\* ('nightly') returns.
C5_Case ==
    /\ changes.changes = _get_curated_breaking_changes
    /\ supervisor.backups["nightly"] = [data |-> ArchiveOf(AddonManifest(V3(2024, 5, 0)))]
    /\ supervisor.ha_info = [response |-> [data |-> [version |-> V3(2024, 10, 1)]]]

ValidatedNightly ==
    /\ changes' = changes
    /\ clock' = clock
    /\ "backup_id" \in DOMAIN report'
    /\ report'.backup_id = "nightly"

CuratedRecord(id) ==
    _get_curated_breaking_changes[
        CHOOSE i \in 1..Len(_get_curated_breaking_changes) :
            _get_curated_breaking_changes[i].id = id]

\* C5 as stated: the matched changes include the mqtt 2024.10 and the zha
\* 2024.9 record, not the esphome 2024.8 record, and the report is
\* incompatible with risk high.
C5_AsStated ==
    [][(C5_Case /\ ValidatedNightly) =>
        /\ "integrations" \in DOMAIN report'
        /\ InList("mqtt", report'.integrations.list)
        /\ InList(CuratedRecord("mqtt_2024_10"), report'.breaking_changes.changes)
        /\ InList(CuratedRecord("zha_2024_9"), report'.breaking_changes.changes)
        /\ ~InList(CuratedRecord("esphome_2024_8"), report'.breaking_changes.changes)
        /\ report'.status = "incompatible"
        /\ report'.risk_level = "high"]_vars

\* C5, amended: in that case the integrations include 'mqtt', the matched
\* breaking changes are the mqtt 2024.10 record alone (zha and esphome are not
\* among the integrations), and the report has status
\* 'compatible_with_warnings' and risk_level 'medium'.
C5_EndToEnd ==
    [][(C5_Case /\ ValidatedNightly) =>
        /\ "integrations" \in DOMAIN report'
        /\ InList("mqtt", report'.integrations.list)
        /\ report'.breaking_changes.changes = <<CuratedRecord("mqtt_2024_10")>>
        /\ report'.status = "compatible_with_warnings"
        /\ report'.risk_level = "medium"]_vars

C5_Witness ==
    /\ C5_Case
    /\ CompleteReport
    /\ report.backup_id = "nightly"
    /\ InList("mqtt", report.integrations.list)
    /\ report.breaking_changes.changes = <<CuratedRecord("mqtt_2024_10")>>
    /\ report.status = "compatible_with_warnings"

(***************************************************************************)
(* Claims about the result of assess_risk                                  *)
(***************************************************************************)
\* C11: for every input list, the empty list included, the result of
\* assess_risk carries change_count = the number of input records, together
\* with level, score and message.
C11_ChangeCount ==
    Assessed =>
        /\ {"level", "score", "message", "change_count"} \subseteq DOMAIN result
        /\ result.change_count = Len(args.breaking_changes)

(***************************************************************************)
(* Claims about update_database                                            *)
(***************************************************************************)
Stored == Get(changes, "changes", <<>>)

IsPrefix(a, b) == Len(a) <= Len(b) /\ SubSeq(b, 1, Len(a)) = a

\* C12: a second call of update_database with the same fetched record set
\* leaves exactly the records of the first call, in the same order.
C12_Idempotent ==
    [][(clock >= 1 /\ clock' = clock + 1)
          => Get(changes', "changes", <<>>) = Get(changes, "changes", <<>>)]_vars

\* the second update of a store that held 'a', with a fetched list that
\* repeats 'b': 'b' was added once
C12_Witness ==
    /\ "new_changes" \in DOMAIN args
    /\ clock = 2
    /\ Len(args.new_changes) = 2
    /\ \A i \in 1..2 : Get(args.new_changes[i], "id", "None") = "b"
    /\ Len(Stored) = 2
    /\ Get(Stored[1], "id", "None") = "a"
    /\ Stored[2] = args.new_changes[1]

\* C13: after loading the store from its persisted document and after any
\* sequence of updates (the fetched list may repeat an id or hold records
\* without an id) no two records of the store have the same id.
C13_UniqueIds ==
    \A i, j \in 1..Len(Stored) :
        (/\ i # j
         /\ "id" \in DOMAIN Stored[i]
         /\ "id" \in DOMAIN Stored[j]) => Stored[i].id # Stored[j].id

\* C14: every step of the store leaves the records it held where they were
\* and as they were; an update adds its records after them, and
\* find_breaking_changes and assess_risk change nothing.
C14_AppendOnly ==
    [][IsPrefix(Get(changes, "changes", <<>>), Get(changes', "changes", <<>>))]_vars

\* a store that held the first record 'a' was updated with the second record
\* 'a' and the record 'b', then queried: the first 'a' is still in front,
\* 'b' follows it
C14_Witness ==
    /\ "new_changes" \in DOMAIN args
    /\ clock >= 1
    /\ "relevant_changes" \in DOMAIN result
    /\ Len(args.new_changes) = 2
    /\ Len(Stored) = 2
    /\ Get(Stored[1], "id", "None") = "a"
    /\ Get(args.new_changes[1], "id", "None") = "a"
    /\ Stored[1] # args.new_changes[1]
    /\ Stored[2] = args.new_changes[2]

\* C15: update_database returns true exactly when the call appended at least
\* one record; a call whose fetched records are all known by id returns false.
C15_ReturnsWhetherAppended ==
    [][clock' = clock + 1
          => (result'.returns
                  <=> Len(Get(changes', "changes", <<>>)) > Len(Get(changes, "changes", <<>>)))]_vars

\* C16: after every update_database call that returns true the document at
\* db_path holds exactly the in-memory changes list and last_update; a write
\* that fails is not reported as a successful update.
C16_PersistedAfterUpdate ==
    [][(clock' = clock + 1 /\ result'.returns)
          => db_file' = [exists |-> TRUE, data |-> changes']]_vars

(***************************************************************************)
(* Claims about calls that run at the same time                            *)
(***************************************************************************)
Returned(t) == t \in DOMAIN threads /\ threads[t].pc = "done"

\* the store before any update of SpecThreads, and after one whole update
StoreBefore == _load_database(NoFile)

StoreAfter == update_database(StoreBefore, NatStr(1)).changes

\* C17: a find_breaking_changes call that runs next to an update_database
\* call returns what it would return on the records before the update or on
\* the records after it, never the matches among only some of the appended
\* records.
C17_FindSeesWholeUpdate ==
    (Returned(Finder) /\ "relevant_changes" \in DOMAIN result)
        => \E db \in {StoreBefore, StoreAfter} :
               result.relevant_changes =
                   find_breaking_changes(db, args.from_version, args.to_version,
                                         args.integrations)

\* C18: when two interleaved update_database calls have both returned, the
\* store holds each fetched id exactly once (no interleaving of the test and
\* the append adds an id twice).
C18_UpdatesSerialized ==
    (\A t \in Updaters : Returned(t))
        => \A k \in 1..Len(_fetch_breaking_changes) :
               Cardinality({i \in 1..Len(Stored) :
                                Get(Stored[i], "id", "None")
                                    = _fetch_breaking_changes[k].id}) = 1

(***************************************************************************)
(* Claims about restore_backup                                             *)
(***************************************************************************)
\* a step in which restore_backup ran
Restored == calls' # calls \/ result' # result

RestoreRequests(requests) ==
    {i \in 1..Len(requests) : requests[i].endpoint = "backups/restore/full"}

\* C19: restore_backup runs validate_backup to its end before it asks the
\* Supervisor to restore, asks for the restore exactly once whatever the
\* validation says (compatible, compatible_with_warnings, incompatible,
\* error), and the result it returns carries that validation report.
C19_ValidateThenRestoreOnce ==
    [][Restored =>
        LET validation == validate_backup(result'.restore_backup, supervisor, changes)
        IN  /\ validation.status \in {"compatible", "compatible_with_warnings",
                                      "incompatible", "error"}
            /\ RestoreRequests(calls') = {Len(calls')}
            /\ calls'[1].endpoint = "backups/download"
            /\ calls'[Len(calls')].backup_id = result'.restore_backup
            /\ "returns" \in DOMAIN result'
                   => result'.returns.validation = validation]_vars

\* an incompatible backup was restored: the download and core/info of the
\* validation, then one restore request, and the report inside the result
C19_Witness ==
    /\ "restore_backup" \in DOMAIN result
    /\ "returns" \in DOMAIN result
    /\ result.returns.validation.status = "incompatible"
    /\ Len(calls) = 3
    /\ calls[3] = Request("backups/restore/full", result.restore_backup)

(***************************************************************************)
(* Claims about the failures of analyze_backup                             *)
(***************************************************************************)
Analyzed == ~Pending /\ "first" \in DOMAIN args

\* what is wrong with an archive, read off the archive itself: it cannot be
\* opened, it has no member named manifest.json, or the first such member
\* that is a file does not hold JSON
ManifestMembers(archive) ==
    {i \in 1..Len(archive.members) :
         /\ Len(archive.members[i].name) >= Len(ManifestName)
         /\ SubSeq(archive.members[i].name,
                   Len(archive.members[i].name) - Len(ManifestName) + 1,
                   Len(archive.members[i].name)) = ManifestName}

Defect(archive) ==
    IF ~archive.opens THEN "cannot be opened"
    ELSE IF ManifestMembers(archive) = {} THEN "no manifest.json"
    ELSE IF \E i \in ManifestMembers(archive) :
                /\ archive.members[i].file
                /\ archive.members[i].content.json = "malformed"
                /\ \A j \in ManifestMembers(archive) :
                       j < i => ~archive.members[j].file
    THEN "manifest.json is not JSON"
    ELSE "none of the three"

\* C20: the failures analyze_backup returns for an archive without a
\* manifest.json entry, for an archive whose manifest.json is not valid JSON
\* and for an archive that cannot be opened have different error descriptions.
C20_FailuresDistinguishable ==
    (/\ Analyzed
     /\ Defect(args.first) # "none of the three"
     /\ Defect(args.second) # "none of the three"
     /\ Defect(args.first) # Defect(args.second))
    => /\ ~result.first.success
       /\ ~result.second.success
       /\ result.first.error # result.second.error

(***************************************************************************)
(* Claims about the analysis of a manifest                                 *)
(***************************************************************************)
\* the archives that were analyzed, each with what analyze_backup returned
Analyses ==
    IF Analyzed
    THEN {[archive |-> args.first, analysis |-> result.first],
          [archive |-> args.second, analysis |-> result.second]}
    ELSE {}

NamePosition(name) == CHOOSE k \in 1..Len(NameOrder) : NameOrder[k] = name

\* C21: on every manifest analyze_backup succeeds on, the integrations are in
\* lexicographic order without a duplicate and contain homeassistant,
\* default_config and system_health; integration_count is their number and
\* addon_count the number of addon records of the manifest.
C21_IntegrationsSorted ==
    \A a \in Analyses :
        a.analysis.success =>
            LET integrations == a.analysis.integrations
            IN  /\ \A i, j \in 1..Len(integrations) :
                       i < j => /\ InList(integrations[i], NameOrder)
                                /\ InList(integrations[j], NameOrder)
                                /\ NamePosition(integrations[i])
                                       < NamePosition(integrations[j])
                /\ \A core \in {"homeassistant", "default_config", "system_health"} :
                       InList(core, integrations)
                /\ a.analysis.integration_count = Len(integrations)
                /\ \A m \in Manifests :
                       a.archive = ArchiveOf(m)
                           => a.analysis.addon_count = Len(Get(m, "addons", <<>>))

\* the manifest that lists zha, mqtt, zha and has one addon
C21_Witness ==
    /\ Analyzed
    /\ args.first = ArchiveOf(ExplicitManifest(V3(2024, 5, 0)))
    /\ result.first.success
    /\ result.first.integrations
           = <<"default_config", "homeassistant", "mqtt", "system_health", "zha">>
    /\ result.first.integration_count = 5
    /\ result.first.addon_count = 1

\* the integrations a manifest should resolve to: the explicit list
\* (integrations, or else components) when one is present and non-empty,
\* and only otherwise what the addon slugs stand for
ExplicitIntegrations(m) ==
    LET ha_data == Get(m, "homeassistant_data", <<>>)
    IN  IF Get(ha_data, "integrations", <<>>) # <<>> THEN ha_data.integrations
        ELSE Get(ha_data, "components", <<>>)

SlugTable ==
    {<<"mosquitto", "mqtt">>, <<"mariadb", "mysql">>, <<"influxdb", "influxdb">>,
     <<"grafana", "grafana">>, <<"node-red", "node_red">>, <<"esphome", "esphome">>,
     <<"zigbee2mqtt", "mqtt">>}

SlugOf(addon) ==
    IF "py_str" \in DOMAIN addon THEN addon.py_str ELSE Get(addon, "slug", "")

ResolvedIntegrations(m) ==
    {"homeassistant", "default_config", "system_health"}
    \cup (IF ExplicitIntegrations(m) # <<>>
          THEN {ExplicitIntegrations(m)[i] : i \in 1..Len(ExplicitIntegrations(m))}
          ELSE {pair[2] : pair \in
                   {p \in SlugTable :
                        \E i \in 1..Len(Get(m, "addons", <<>>)) :
                            SlugOf(m.addons[i]) = p[1]}})

\* C22: the integrations of a manifest are its explicit list (integrations,
\* or components when integrations is absent or empty) with nothing inferred
\* from the addons; only without a non-empty explicit list are they inferred
\* from the addon slugs through the table.
C22_ResolutionOrder ==
    \A a \in Analyses :
        \A m \in Manifests :
            (a.archive = ArchiveOf(m) /\ a.analysis.success)
                => {a.analysis.integrations[i] :
                        i \in 1..Len(a.analysis.integrations)} = ResolvedIntegrations(m)

(***************************************************************************)
(* Claims about _parse_version                                             *)
(***************************************************************************)
Parsed == ~Pending /\ "version" \in DOMAIN args

\* the segments of a string between its dots, after at most one leading 'v'
RECURSIVE Segments(_)
Segments(s) ==
    IF \A i \in 1..Len(s) : s[i] # "." THEN <<s>>
    ELSE LET i == CHOOSE k \in 1..Len(s) : s[k] = "." /\ \A j \in 1..(k - 1) : s[j] # "."
         IN  <<SubSeq(s, 1, i - 1)>> \o Segments(SubSeq(s, i + 1, Len(s)))

WithoutOneV(s) == IF s # <<>> /\ s[1] = "v" THEN Tail(s) ELSE s

\* a segment is numeric when int() converts it (a sign and blanks included)
Numeric(segment) == int_ok(segment)

\* C23: a string with fewer than two dot-separated segments, or with a
\* segment that is not numeric (a fourth or later one included), fails to
\* parse without raising; only one leading 'v' is stripped.
C23_NonNumericFails ==
    Parsed =>
        LET segments == Segments(WithoutOneV(args.version))
        IN  (\/ Len(segments) < 2
             \/ \E i \in 1..Len(segments) : ~Numeric(segments[i]))
                => result.analyzer.kind = "none" /\ result.store.kind = "none"

\* C24: every successful parse, in the analyzer and in the store, gives a
\* year, a month and a patch that are not negative, with patch 0 for a
\* string of two segments; a string with a negative segment is not accepted.
C24_NonNegativeTriple ==
    Parsed =>
        \A parsed \in {result.analyzer, result.store} :
            parsed.kind = "ok"
                => /\ parsed.year >= 0
                   /\ parsed.month >= 0
                   /\ parsed.patch >= 0
                   /\ Len(Segments(args.version)) = 2 => parsed.patch = 0

(***************************************************************************)
(* Claims about the extraction of the manifest                             *)
(***************************************************************************)
FirstManifestMember(archive) ==
    CHOOSE i \in ManifestMembers(archive) : \A j \in ManifestMembers(archive) : i <= j

\* C26: the first archive entry whose path is or ends with manifest.json
\* decides the extraction: when that entry cannot be read as a file or is
\* not valid JSON the analysis fails, whatever later entries hold.
C26_FirstMatchDecides ==
    \A a \in Analyses :
        (/\ a.archive.opens
         /\ ManifestMembers(a.archive) # {}
         /\ LET first == a.archive.members[FirstManifestMember(a.archive)]
            IN  ~first.file \/ first.content.json = "malformed")
        => ~a.analysis.success

(***************************************************************************)
(* Claims about the report of validate_backup                              *)
(***************************************************************************)
\* C28: a report whose status is 'compatible' has version_info.compatible =
\* true, so a backup version or a current version that cannot be parsed
\* never gives status 'compatible' with risk_level 'low'.
C28_CompatibleMeansComparable ==
    (CompleteReport /\ report.status = "compatible")
        => report.version_info.compatible = TRUE

BreakingEntries(findings) ==
    {i \in 1..Len(findings) : findings[i].type = "breaking_change"}

HighRecords(records) ==
    {i \in 1..Len(records) :
         "severity" \in DOMAIN records[i] /\ records[i].severity = "high"}

\* C29: every matched breaking-change record gives exactly one entry of the
\* report, an issue if its severity is 'high' and a warning otherwise, so
\* the breaking_change issues and warnings together are as many as
\* breaking_changes.count; a report with status 'compatible' has no matched
\* breaking change, no issue and no warning.
C29_OneEntryPerChange ==
    CompleteReport =>
        LET matched == report.breaking_changes.changes
        IN  /\ report.breaking_changes.count = Len(matched)
            /\ Cardinality(BreakingEntries(report.issues))
                   = Cardinality(HighRecords(matched))
            /\ Cardinality(BreakingEntries(report.warnings))
                   = Len(matched) - Cardinality(HighRecords(matched))
            /\ \A i \in BreakingEntries(report.issues) : report.issues[i].severity = "high"
            /\ \A i \in BreakingEntries(report.warnings) : report.warnings[i].severity # "high"
            /\ report.status = "compatible"
                   => /\ report.breaking_changes.count = 0
                      /\ report.issues = <<>>
                      /\ report.warnings = <<>>

C29_Witness ==
    /\ CompleteReport
    /\ report.breaking_changes.count = 3
    /\ Cardinality(BreakingEntries(report.issues)) = 1
    /\ Cardinality(BreakingEntries(report.warnings)) = 2

StatusPairs ==
    {<<"incompatible", "high">>,
     <<"compatible_with_warnings", "high">>,
     <<"compatible_with_warnings", "medium">>,
     <<"compatible", "low">>,
     <<"error", "unknown">>}

\* C30: every returned report has (status, risk_level) among (incompatible,
\* high), (compatible_with_warnings, high), (compatible_with_warnings,
\* medium), (compatible, low) and (error, unknown); the recommendation is
\* the 'not recommended' text iff the status is 'incompatible' and the
\* 'appears safe' text iff the status is 'compatible'.
C30_StatusRiskPairs ==
    Validated =>
        /\ <<report.status, report.risk_level>> \in StatusPairs
        /\ "recommendation" \notin DOMAIN report => report.status = "error"
        /\ "recommendation" \in DOMAIN report
               => /\ report.recommendation = "Restoration not recommended"
                      <=> report.status = "incompatible"
                  /\ report.recommendation = "Backup appears safe to restore"
                      <=> report.status = "compatible"

C30_Witness ==
    /\ CompleteReport
    /\ report.status = "compatible_with_warnings"
    /\ report.risk_level = "high"
    /\ report.issues = <<>>
    /\ report.recommendation = "Proceed with caution"

(***************************************************************************)
(* Claims about the order of the steps of validate_backup                  *)
(***************************************************************************)
StepOrder ==
    <<"download_backup", "analyze_backup", "get_homeassistant_info",
      "compare_versions", "find_breaking_changes">>

\* the report of the call taken step by step is the report of validate_backup
StepsAgree ==
    Validating("done")
        => report = validate_backup(threads.validate.backup_id, supervisor, changes)

\* C27: within one validate_backup call the calls are download_backup, then
\* the analysis, then get_homeassistant_info, then the comparison and the
\* lookup, each at most once; after a failed download nothing else is
\* called, and after a failed analysis neither the current version is
\* fetched nor the versions compared nor the breaking changes looked up.
C27_StepOrder ==
    "validate" \in DOMAIN threads =>
        LET download == supervisor.backups[threads.validate.backup_id]
        IN  /\ IsPrefix(calls, StepOrder)
            /\ "raise" \in DOMAIN download => Len(calls) <= 1
            /\ ("data" \in DOMAIN download /\ ~analyze_backup(download.data).success)
                   => Len(calls) <= 2
            /\ Validating("done") =>
                   \/ calls = StepOrder
                   \/ report.status = "error"

C27_Witness ==
    /\ Validating("done")
    /\ calls = <<"download_backup", "analyze_backup">>
    /\ report.status = "error"
    /\ report.error = "Could not extract manifest from backup file"

(***************************************************************************)
(* Claims about the configuration                                          *)
(***************************************************************************)
\* the call that was just made was given a dict of JSON values, as a dict,
\* as a key and a value, or as the text of a JSON object
GivenDict ==
    /\ "method" \in DOMAIN args
    /\ args.method = "import_config"
           => /\ args.input.json = "value"
              /\ "dict" \in DOMAIN args.input.value

\* C25: after any sequence of save_config, update_config, set_value,
\* import_config and reset_to_defaults from the default configuration the
\* persisted configuration has exactly the seven known keys, a
\* backup_schedule among hourly, daily, weekly and monthly and an integer
\* backup_retention from 1 to 365; a call that is given a dict of values,
\* whatever the values, is not rejected.
C25_PersistedConfigValid ==
    /\ DOMAIN config_file = DOMAIN DEFAULT_CONFIG
    /\ config_file.backup_schedule \in valid_schedules
    /\ "int" \in DOMAIN config_file.backup_retention
    /\ config_file.backup_retention.int \in 1..365
    /\ GivenDict => "returns" \in DOMAIN result

====
